---- MODULE Spec2Model ----
(***************************************************************************)
(* Admission-control pipeline of the QuickAPI service:                     *)
(*   - RateLimiter          (app/config/rate_limiter.py,                   *)
(*                           app/store/rate_limit.py)                      *)
(*   - body-limit guard     (app/middleware/request_body_limit.py)         *)
(*   - header-limit guard   (app/middleware/request_header_limit.py)       *)
(* Each component has its own specification (SpecRate, SpecBody,           *)
(* SpecHeader); the variables of the other components stay idle.           *)
(***************************************************************************)
EXTENDS Integers, Sequences, FiniteSets, TLC

VARIABLES
    \* ---- RateLimiter ----
    cfg,        \* constructor arguments of RateLimiter
    clients,    \* RateLimiter._clients : ip -> RateLimitState
    last_gc,    \* RateLimiter._last_gc
    clock,      \* last value returned by time.monotonic()
    call,       \* history: the last allow() call, its clock reads and buckets
    run,        \* history: per client, the calls made at one unchanged instant
    evicted,    \* history: clients deleted by _gc and not seen since
    \* ---- body-limit guard, one request ----
    body_cfg,   \* default_limit, route_overrides and the request's scope
    body_pc,    \* "new", "app" (downstream running), "rejected", "done", "bypass"
    total,      \* _run.total
    body_chunks,\* _run.body_chunks
    stream,     \* history: the messages the transport's receive() returned
    app_calls,  \* history: how many times self.app was invoked
    sent,       \* the response starts handed to the transport's send
    replayed,   \* history: the messages replay_body returned
    \* ---- header-limit guard, one request ----
    hdr_cfg,    \* HeaderLimits and the request's scope
    hdr_pc,     \* "new", "rejected", "forwarded", "bypass"
    hdr_sent,   \* the response starts handed to the transport's send
    hdr_app,    \* history: the headers and receive self.app was invoked with
    \* ---- the middleware stack built by create_app, one request ----
    pipe_req,   \* the request: scope type, method, raw headers, limiter verdict
    pipe_headers,\* scope["headers"] as the next layer will read it
    pipe_at,    \* index in Pipeline of the layer to be entered next
    pipe_entered,\* history: the layers entered so far, outermost first
    pipe_sent,  \* the responses handed to the transport's send
    pipe_pc,    \* "new", "run", "answered" (a layer replied), "routed"
    \* ---- timeout guard, one request ----
    tmo_cfg,    \* the three timeouts and the request's scope type
    tmo_clock,  \* last value of asyncio.get_event_loop().time()
    start_time, \* _run.start_time
    received_headers, \* _run.received_headers
    tmo_pc,     \* "new", "app" (downstream running), "rejected", "done", "bypass"
    tmo_calls,  \* history: the calls of timed_receive and their outcomes
    tmo_sent,   \* the response starts handed to the transport's send
    \* ---- rate-limit guard, the request handled last ----
    rg_req,     \* its scope: type and client
    rg_allow_calls, \* history: the calls of limiter.allow made for it
    rg_sent,    \* the responses the guard sent for it
    rg_forwarded, \* history: how many times self.app was invoked for it
    \* ---- the limiter run in which only client B calls allow() ----
    alone,      \* B's bucket in that run, if it has one
    alone_last_gc, \* RateLimiter._last_gc in that run
    verdicts,   \* history: the last call and what allow() returned in each run
    \* ---- exception handling of one middleware layer ----
    exc_cfg, \* the layer
    exc_pc, \* "new", "app" (next layer running), "answered", "raised", "returned"
    exc_thrown, \* history: the exception the next layer raised
    exc_out, \* the exception that left the layer's __call__, if any
    exc_sent, \* the responses the layer itself sent
    \* ---- the rejection responses ----
    resp_clock, \* datetime.now(UTC), in steps of half a millisecond
    resp_by, \* the class or handler that produced the last response
    resp_out, \* the last rejection response
    resp_formats, \* history: the timestamp formats of the responses sent so far
    \* ---- the lifecycle and the readiness probe ----
    _services, \* what check() of each registered service answers now
    _startup_started, \* LifecycleHandler._startup_started
    _startup_completed, \* LifecycleHandler._startup_completed
    _shutdown_started, \* LifecycleHandler._shutdown_started
    lc_starting, \* position of startup(): 0 not called, i awaiting start() of service i
    probe, \* history: the last answer of GET /ready and what it was computed from
    lc_stopping, \* position of shutdown(): 0 not called, p awaiting the p-th stop() of its loop
    lc_calls, \* history: the start() and stop() calls that ended, in order, with their outcome
    lc_repeats, \* history: the calls of startup() and shutdown() that found their flag set
    \* ---- two requests in flight through the timeout and body-limit guards ----
    flight_cfg, \* the limits of the two guards
    flight_clock, \* asyncio.get_event_loop().time()
    frames, \* the locals of each call of _run: start_time, received_headers, total, body_chunks
    flight, \* per request: position, clock reading and deadline of the pending call, log of its calls
    \* ---- a rejection unwinding through the stack ----
    uw_cfg, \* the rejection, whether the application handles HTTPException, whether its response has started
    uw_at, \* the layer the exception has reached: APPLICATION, a position of Pipeline, 0 outside
    uw_pc, \* "new", "raised", "answered", "escaped"
    uw_exc, \* the exception in flight
    uw_sent, \* the response starts handed to the transport
    \* ---- header sanitization guard on its own ----
    san_cfg, \* the request: scope type and the header list it arrived with
    san_pc, \* "new", then "bypass", "forwarded", "rejected" or "raised"
    san_scope, \* scope["headers"] as it is now
    san_app, \* history: the headers and receive self.app was invoked with
    san_sent, \* the response starts handed to the transport's send
    \* ---- the admissions of RateLimiter.allow over time ----
    admissions \* history: per client and time, the calls of allow that returned True

rateVars == <<cfg, clients, last_gc, clock, call, run, evicted>>

bodyVars == <<body_cfg, body_pc, total, body_chunks, stream, app_calls, sent,
              replayed>>

hdrVars == <<hdr_cfg, hdr_pc, hdr_sent, hdr_app>>

pipeVars == <<pipe_req, pipe_headers, pipe_at, pipe_entered, pipe_sent, pipe_pc>>

tmoVars == <<tmo_cfg, tmo_clock, start_time, received_headers, tmo_pc,
             tmo_calls, tmo_sent>>

excVars == <<exc_cfg, exc_pc, exc_thrown, exc_out, exc_sent>>

respVars == <<resp_clock, resp_by, resp_out, resp_formats>>

readyVars == <<_services, _startup_started, _startup_completed,
               _shutdown_started, lc_starting, probe, lc_stopping, lc_calls,
               lc_repeats>>

flightVars == <<flight_cfg, flight_clock, frames, flight>>

unwindVars == <<uw_cfg, uw_at, uw_pc, uw_exc, uw_sent>>

sanVars == <<san_cfg, san_pc, san_scope, san_app, san_sent>>

\* the components specified after the pipeline and the timeout guard
lateVars == <<excVars, respVars, readyVars, flightVars, unwindVars, sanVars>>

\* the variables of the components specified after the three guards above
extVars == <<pipeVars, tmoVars, lateVars>>

guardVars == <<rg_req, rg_allow_calls, rg_sent, rg_forwarded>>

indepVars == <<alone, alone_last_gc, verdicts>>

admitVars == <<admissions>>

\* the variables written by the layers placed around RateLimiter.allow
auxVars == <<guardVars, indepVars, admitVars>>

vars == <<rateVars, bodyVars, hdrVars, extVars, auxVars>>

\* what the actions of the exception handling leave alone
excRest == <<rateVars, bodyVars, hdrVars, pipeVars, tmoVars, auxVars,
            respVars, readyVars, flightVars, unwindVars, sanVars>>

\* what the actions of the rejection responses leave alone
respRest == <<rateVars, bodyVars, hdrVars, pipeVars, tmoVars, auxVars,
             excVars, readyVars, flightVars, unwindVars, sanVars>>

\* what the actions of the lifecycle leave alone
readyRest == <<rateVars, bodyVars, hdrVars, pipeVars, tmoVars, auxVars,
              excVars, respVars, flightVars, unwindVars, sanVars>>

\* what the actions of the requests in flight leave alone
flightRest == <<rateVars, bodyVars, hdrVars, pipeVars, tmoVars, auxVars,
               excVars, respVars, readyVars, unwindVars, sanVars>>

\* what the actions of the unwinding rejection leave alone
unwindRest == <<rateVars, bodyVars, hdrVars, pipeVars, tmoVars, auxVars,
               excVars, respVars, readyVars, flightVars, sanVars>>

\* what the action of the header sanitization guard leaves alone
sanRest == <<rateVars, bodyVars, hdrVars, pipeVars, tmoVars, auxVars,
            excVars, respVars, readyVars, flightVars, unwindVars>>

Min(a, b) == IF a <= b THEN a ELSE b
Max(a, b) == IF a >= b THEN a ELSE b

(***************************************************************************)
(* RateLimiter                                                             *)
(*                                                                         *)
(* Time is counted in integer ticks.  sustained_tokens is a float in the   *)
(* source; here it is the exact rational it stands for, stored as a        *)
(* numerator over the denominator cfg.sustained_period, so that the        *)
(* refill elapsed * (max_sustained / sustained_period) is the integer      *)
(* elapsed * max_sustained.  Tok(n) is n whole tokens in that unit.        *)
(***************************************************************************)
MaxTime == 5
MaxDrift == 1

\* at most MaxRun calls of one client are followed within one instant
MaxRun == 3

Clients == {"1.2.3.4", "5.6.7.8"}

RateConfigs ==
    { [max_burst |-> 2, burst_window |-> 2, max_sustained |-> 3,
       sustained_period |-> 2, gc_interval |-> 3],
      [max_burst |-> 3, burst_window |-> 1, max_sustained |-> 2,
       sustained_period |-> 3, gc_interval |-> 1],
      [max_burst |-> 1, burst_window |-> 6, max_sustained |-> 1,
       sustained_period |-> 1, gc_interval |-> 2],
      [max_burst |-> 2, burst_window |-> 3, max_sustained |-> 2,
       sustained_period |-> 2, gc_interval |-> 5] }

Tok(n) == n * cfg.sustained_period

NoCall == [ip |-> "none"]

NoRun ==
    [at |-> -1, n |-> 0, ok |-> 0, denied |-> FALSE,
     start |-> [burst_tokens |-> 0, sustained_tokens |-> 0]]

\* RateLimitState.new: full allowances, every timestamp the current time
New(now) ==
    [burst_tokens     |-> cfg.max_burst,
     sustained_tokens |-> Tok(cfg.max_sustained),
     last_burst_reset |-> now,
     last_refill      |-> now,
     last_seen        |-> now]

\* mutant: the stored bucket is not read
GetStateNew(ip, now) == New(now)

\* RateLimiter._get_state: the stored bucket, or a new one
GetState(ip, now) ==
    IF ip \in DOMAIN clients THEN clients[ip] ELSE New(now)

\* mutant: the sustained refill is not clamped to max_sustained
RefillNoClamp(state, now) ==
    LET elapsed == now - state.last_refill
        s1 == IF elapsed > 0
              THEN [state EXCEPT
                      !.last_refill = now,
                      !.sustained_tokens = @ + elapsed * cfg.max_sustained]
              ELSE state
        s2 == IF (now - s1.last_burst_reset) >= cfg.burst_window
              THEN [s1 EXCEPT !.burst_tokens = cfg.max_burst,
                              !.last_burst_reset = now]
              ELSE s1
    IN  [s2 EXCEPT !.last_seen = now]

\* mutant: the burst window must be strictly exceeded
RefillStrictWindow(state, now) ==
    LET elapsed == now - state.last_refill
        s1 == IF elapsed > 0
              THEN [state EXCEPT
                      !.last_refill = now,
                      !.sustained_tokens =
                          Min(Tok(cfg.max_sustained),
                              @ + elapsed * cfg.max_sustained)]
              ELSE state
        s2 == IF (now - s1.last_burst_reset) > cfg.burst_window
              THEN [s1 EXCEPT !.burst_tokens = cfg.max_burst,
                              !.last_burst_reset = now]
              ELSE s1
    IN  [s2 EXCEPT !.last_seen = now]

\* mutant: one token per tick instead of max_sustained / sustained_period
RefillUnitRate(state, now) ==
    LET elapsed == now - state.last_refill
        s1 == IF elapsed > 0
              THEN [state EXCEPT
                      !.last_refill = now,
                      !.sustained_tokens =
                          Min(Tok(cfg.max_sustained), @ + Tok(elapsed))]
              ELSE state
        s2 == IF (now - s1.last_burst_reset) >= cfg.burst_window
              THEN [s1 EXCEPT !.burst_tokens = cfg.max_burst,
                              !.last_burst_reset = now]
              ELSE s1
    IN  [s2 EXCEPT !.last_seen = now]

\* RateLimiter._refill
Refill(state, now) ==
    LET elapsed == now - state.last_refill
        s1 == IF elapsed > 0
              THEN [state EXCEPT
                      !.last_refill = now,
                      !.sustained_tokens =
                          Min(Tok(cfg.max_sustained),
                              @ + elapsed * cfg.max_sustained)]
              ELSE state
        s2 == IF (now - s1.last_burst_reset) >= cfg.burst_window
              THEN [s1 EXCEPT !.burst_tokens = cfg.max_burst,
                              !.last_burst_reset = now]
              ELSE s1
    IN  [s2 EXCEPT !.last_seen = now]

\* mutant: the idle cutoff is taken from gc_interval
GcDeletedWrongCutoff(m, now) ==
    IF (now - last_gc) < cfg.gc_interval
    THEN {}
    ELSE {ip \in DOMAIN m : (now - m[ip].last_seen) > cfg.gc_interval * 2}

\* RateLimiter._gc over the map `m`: the ips it deletes
GcDeleted(m, now) ==
    IF (now - last_gc) < cfg.gc_interval
    THEN {}
    ELSE {ip \in DOMAIN m : (now - m[ip].last_seen) > cfg.sustained_period * 2}

\* RateLimiter._gc: the new value of _last_gc
GcLastGc(now) ==
    IF (now - last_gc) < cfg.gc_interval THEN last_gc ELSE now

\* mutant: the sustained bucket is not consulted
AdmittedBurstOnly(state) ==
    ~(state.burst_tokens < 1)

\* RateLimiter.allow, lines 75-84: the admission decision on the bucket
Admitted(state) ==
    ~(state.burst_tokens < 1) /\ ~(state.sustained_tokens < Tok(1))

\* mutant: an admitted call takes no burst token
ConsumeSustainedOnly(state) ==
    IF Admitted(state)
    THEN [state EXCEPT !.sustained_tokens = @ - Tok(1)]
    ELSE state

\* RateLimiter.allow, lines 81-82: the bucket after the decision
Consume(state) ==
    IF Admitted(state)
    THEN [state EXCEPT !.burst_tokens = @ - 1,
                       !.sustained_tokens = @ - Tok(1)]
    ELSE state

RateInit ==
    /\ cfg \in RateConfigs
    /\ clients = <<>>
    /\ last_gc = 0
    /\ clock = 0
    /\ call = NoCall
    /\ run = [c \in Clients |-> NoRun]
    /\ evicted = {}

\* One allow(ip) call.  The clock is read in RateLimitState.new (t_new, only
\* for an unknown ip), in _refill (t_refill) and in _gc (t_gc).
AllowAt(ip, t_new, t_refill, t_gc) ==
    LET fresh   == ip \notin DOMAIN clients
        state   == GetState(ip, t_new)
        filled  == Refill(state, t_refill)
        m       == [c \in DOMAIN clients \cup {ip} |->
                        IF c = ip THEN filled ELSE clients[c]]
        deleted == GcDeleted(m, t_gc)
        final   == Consume(filled)
        instant == (t_refill = clock) /\ (t_gc = clock)
                   /\ (fresh => t_new = clock)
        same    == instant /\ run[ip].at = clock
        held    == [burst_tokens     |-> filled.burst_tokens,
                    sustained_tokens |-> filled.sustained_tokens]
    IN  /\ same => run[ip].n < MaxRun
        /\ clients' = [c \in DOMAIN m \ deleted |->
                          IF c = ip THEN final ELSE m[c]]
        /\ last_gc' = GcLastGc(t_gc)
        /\ clock' = t_gc
        /\ call' = [ip |-> ip, fresh |-> fresh, was_evicted |-> ip \in evicted,
                    t_new |-> t_new, now |-> t_refill, t_gc |-> t_gc,
                    before |-> state, decided |-> filled, after |-> final,
                    allowed |-> Admitted(filled),
                    same_instant |-> same,
                    denied_before |-> same /\ run[ip].denied]
        /\ run' = [run EXCEPT ![ip] =
                      IF ~instant THEN NoRun
                      ELSE IF same
                      THEN [at |-> clock,
                            n  |-> @.n + 1,
                            ok |-> @.ok + (IF Admitted(filled) THEN 1 ELSE 0),
                            denied |-> @.denied \/ ~Admitted(filled),
                            start |-> @.start]
                      ELSE [at |-> clock,
                            n  |-> 1,
                            ok |-> IF Admitted(filled) THEN 1 ELSE 0,
                            denied |-> ~Admitted(filled),
                            start |-> held]]
        /\ evicted' = (evicted \ {ip}) \cup (deleted \ {ip})
        /\ UNCHANGED <<cfg, bodyVars, hdrVars, extVars>>

\* allow(ip) called at time t0 >= clock; the clock may advance by up to MaxDrift
\* ticks between two reads of the same call.
Allow ==
    \E ip \in Clients :
      \E t0 \in clock..MaxTime :
        \E t_refill \in t0..Min(t0 + (IF ip \in DOMAIN clients THEN 0 ELSE MaxDrift),
                                MaxTime) :
          \E t_gc \in t_refill..Min(t_refill + MaxDrift, MaxTime) :
            /\ AllowAt(ip, t0, t_refill, t_gc)
            /\ UNCHANGED auxVars

RateNext == Allow

(***************************************************************************)
(* Body-limit guard: RequestBodyLimitASGIMiddleware, one request.          *)
(*                                                                         *)
(* The bytes of the request body are numbered 1, 2, 3, ... in the order    *)
(* the transport delivers them; a chunk is the sequence of its bytes.      *)
(* A path and a route prefix are sequences of characters.                  *)
(***************************************************************************)
MaxBodyLimit == 3
MaxChunk == 2
MaxMessages == 3
MaxReplays == 2

HTTP_413 == 413

Paths == { <<"/", "a">>, <<"/", "u">> }

RouteOverrides ==
    { << >>,
      << [prefix |-> <<"/", "u">>, max_body_bytes |-> 2],
         [prefix |-> <<"/">>, max_body_bytes |-> 1] >> }

\* the Content-Length header as int() reads it: no header, a ValueError, or
\* the integer
ContentLengths ==
    { [kind |-> "absent", value |-> 0], [kind |-> "invalid", value |-> 0] }
    \cup [kind : {"int"}, value : -1 .. MaxBodyLimit + 1]

StartsWith(path, prefix) ==
    /\ Len(prefix) <= Len(path)
    /\ SubSeq(path, 1, Len(prefix)) = prefix

\* mutant: the last matching override wins
SelectFromLast(overrides, path, default) ==
    LET hits == { i \in 1..Len(overrides) :
                    StartsWith(path, overrides[i].prefix) }
    IN  IF hits = {} THEN default
        ELSE overrides[CHOOSE i \in hits : \A j \in hits : j <= i].max_body_bytes

RECURSIVE SelectFrom(_, _, _)
SelectFrom(overrides, path, default) ==
    IF overrides = << >> THEN default
    ELSE IF StartsWith(path, Head(overrides).prefix)
         THEN Head(overrides).max_body_bytes
         ELSE SelectFrom(Tail(overrides), path, default)

\* RequestBodyLimitASGIMiddleware._select_limit, as max_body_bytes
SelectLimit(path) ==
    SelectFrom(body_cfg.route_overrides, path, body_cfg.default_limit)

\* _run.max_bytes
max_bytes == SelectLimit(body_cfg.path)

\* http_exception_handler: the response of an HTTPException, sent with the
\* transport's own send (no header added)
Rejection(status, detail) ==
    [status |-> status, detail |-> detail, annotated |-> FALSE]

\* mutant: a declared length equal to the limit is refused
PreCheckInclusive(content_length, limit) ==
    IF content_length.kind = "absent" THEN "pass"
    ELSE IF content_length.kind = "invalid" THEN "invalid"
    ELSE IF content_length.value >= limit THEN "too_large"
    ELSE "pass"

\* _run, lines 94-113: the check of the declared Content-Length
PreCheck(content_length, limit) ==
    IF content_length.kind = "absent" THEN "pass"
    ELSE IF content_length.kind = "invalid" THEN "invalid"
    ELSE IF content_length.value > limit THEN "too_large"
    ELSE "pass"

\* mutant: each chunk is measured on its own, not the running total
OverLimitPerChunk(new_total, chunk_len, limit) ==
    chunk_len > limit

\* mutant: the chunk that crosses the limit is still let through
OverLimitLate(new_total, chunk_len, limit) ==
    new_total - chunk_len > limit

\* limited_receive, line 130: the running total has passed the limit
OverLimit(new_total, chunk_len, limit) ==
    new_total > limit

BodyIdle ==
    /\ body_cfg = [scope_type |-> "none"]
    /\ body_pc = "idle"
    /\ total = 0
    /\ body_chunks = << >>
    /\ stream = << >>
    /\ app_calls = 0
    /\ sent = << >>
    /\ replayed = << >>

BodyInit ==
    /\ body_cfg \in [scope_type     : {"http", "websocket"},
                     path           : Paths,
                     content_length : ContentLengths,
                     default_limit  : 1..MaxBodyLimit,
                     route_overrides: RouteOverrides]
    /\ body_pc = "new"
    /\ total = 0
    /\ body_chunks = << >>
    /\ stream = << >>
    /\ app_calls = 0
    /\ sent = << >>
    /\ replayed = << >>

\* __call__ and _run up to the call of self.app
BodyCall ==
    /\ body_pc = "new"
    /\ IF body_cfg.scope_type # "http"
       THEN /\ app_calls' = app_calls + 1
            /\ body_pc' = "bypass"
            /\ UNCHANGED sent
       ELSE LET check == PreCheck(body_cfg.content_length, max_bytes)
            IN  IF check = "invalid"
                THEN /\ sent' = Append(sent, Rejection(HTTP_413, "invalid"))
                     /\ body_pc' = "rejected"
                     /\ UNCHANGED app_calls
                ELSE IF check = "too_large"
                THEN /\ sent' = Append(sent, Rejection(HTTP_413, "exceeds"))
                     /\ body_pc' = "rejected"
                     /\ UNCHANGED app_calls
                ELSE /\ app_calls' = app_calls + 1
                     /\ body_pc' = "app"
                     /\ UNCHANGED sent
    /\ UNCHANGED <<body_cfg, total, body_chunks, stream, replayed, rateVars, hdrVars, extVars, auxVars>>

\* the bytes already delivered by the transport
Delivered == IF stream = << >> THEN 0 ELSE stream[Len(stream)].upto

EndOfBody ==
    \E i \in 1..Len(stream) :
        stream[i].type = "http.disconnect" \/ ~stream[i].more_body

\* the chunk of n bytes that follows the bytes already delivered
NextChunk(n) == [i \in 1..n |-> Delivered + i]

\* limited_receive called by the downstream; the transport returns a body
\* message of n bytes, or http.disconnect once the body has ended or the client
\* has gone.  The HTTPException raised inside the downstream's receive either
\* is turned into a response by the downstream (handler = "downstream": the
\* response start passes send_wrapper) or reaches __call__ (handler = "guard").
LimitedReceive(type, n, more_body, handler) ==
    /\ body_pc = "app"
    /\ Len(stream) < MaxMessages
    /\ type = "http.request" => ~EndOfBody
    /\ type = "http.disconnect" => n = 0 /\ ~more_body /\ handler = "guard"
    /\ LET over == type = "http.request" /\ n > 0
                   /\ OverLimit(total + n, n, max_bytes)
           msg  == [type |-> type, chunk |-> NextChunk(n), more_body |-> more_body,
                    upto |-> Delivered + n, forwarded |-> ~over]
       IN  /\ stream' = Append(stream, msg)
           /\ total' = IF type = "http.request" THEN total + n ELSE total
           /\ IF over
              THEN /\ UNCHANGED body_chunks
                   /\ IF handler = "guard"
                      THEN /\ sent' = Append(sent, Rejection(HTTP_413, "exceeds"))
                           /\ body_pc' = "rejected"
                      ELSE /\ sent' = Append(sent,
                                  [status |-> HTTP_413, detail |-> "exceeds",
                                   annotated |-> TRUE,
                                   limit |-> max_bytes,
                                   remaining |-> Max(max_bytes - (total + n), 0)])
                           /\ body_pc' = "done"
              ELSE /\ body_chunks' = IF type = "http.request" /\ n > 0
                                     THEN Append(body_chunks, NextChunk(n))
                                     ELSE body_chunks
                   /\ handler = "guard"
                   /\ UNCHANGED <<sent, body_pc>>
    /\ UNCHANGED <<body_cfg, app_calls, replayed, rateVars, hdrVars, extVars, auxVars>>

RECURSIVE Join(_)
Join(chunks) ==
    IF chunks = << >> THEN << >> ELSE Head(chunks) \o Join(Tail(chunks))

\* empty_receive
EmptyReceive == [type |-> "http.request", body |-> << >>, more_body |-> FALSE]

\* mutant: the buffered chunks are merged last first
ReplayedReversed(chunks) ==
    IF chunks # << >>
    THEN [type |-> "http.request",
          body |-> Join([i \in 1..Len(chunks) |-> chunks[Len(chunks) + 1 - i]]),
          more_body |-> FALSE]
    ELSE EmptyReceive

\* replay_body, lines 146-151: the message it returns for the buffer
Replayed(chunks) ==
    IF chunks # << >>
    THEN [type |-> "http.request", body |-> Join(chunks), more_body |-> FALSE]
    ELSE EmptyReceive

\* replay_body, called by the downstream through scope["_body_replay"];
\* the history keeps the message and how many messages the transport had
\* delivered by then
ReplayBody ==
    /\ body_pc = "app"
    /\ Len(replayed) < MaxReplays
    /\ replayed' = Append(replayed,
           [message |-> Replayed(body_chunks), after |-> Len(stream)])
    /\ body_chunks' = << >>
    /\ UNCHANGED <<body_cfg, body_pc, total, stream, app_calls, sent, rateVars, hdrVars, extVars, auxVars>>

\* send_wrapper: the downstream sends its http.response.start
SendWrapper(status) ==
    /\ body_pc = "app"
    /\ sent = << >>
    /\ sent' = Append(sent,
           [status |-> status, detail |-> "app", annotated |-> TRUE,
            limit |-> max_bytes,
            remaining |-> Max(max_bytes - total, 0)])
    /\ UNCHANGED <<body_cfg, body_pc, total, body_chunks, stream, app_calls,
                   replayed, rateVars, hdrVars, extVars, auxVars>>

\* self.app returns after its response
AppReturn ==
    /\ body_pc = "app"
    /\ sent # << >>
    /\ body_pc' = "done"
    /\ UNCHANGED <<body_cfg, total, body_chunks, stream, app_calls, sent,
                   replayed, rateVars, hdrVars, extVars, auxVars>>

BodyNext ==
    \/ BodyCall
    \/ \E type \in {"http.request", "http.disconnect"} :
         \E n \in 0..MaxChunk :
           \E more_body \in BOOLEAN :
             \E handler \in {"guard", "downstream"} :
               LimitedReceive(type, n, more_body, handler)
    \/ ReplayBody
    \/ \E status \in {200} : SendWrapper(status)
    \/ AppReturn

(***************************************************************************)
(* Header-limit guard: RequestHeaderLimitASGIMiddleware, one request.      *)
(*                                                                         *)
(* A header is a pair of byte strings, each a sequence of characters; its  *)
(* size is len(name) + len(value).  The two-letter name "te" stands for    *)
(* transfer-encoding and the value "ch" for chunked.                       *)
(***************************************************************************)
CountCap == 2
SingleCap == 4
TotalCap == 7

HTTP_431 == 431
HTTP_501 == 501

TRANSFER_ENCODING == <<"t", "e">>
CHUNKED == <<"c", "h">>

Headers ==
    { [name |-> <<"a">>,      value |-> << >>],
      [name |-> <<"a">>,      value |-> <<"x">>],
      [name |-> <<"b">>,      value |-> <<"x", "x">>],
      [name |-> <<"t", "e">>, value |-> <<"x">>],
      [name |-> <<"t", "e">>, value |-> <<"c", "h">>],
      [name |-> <<"T", "e">>, value |-> <<"C", "H">>] }

HeaderLists ==
    UNION { [1..n -> Headers] : n \in 0..(CountCap + 1) }

\* str.lower on one character
LowerChar(c) ==
    CASE c = "A" -> "a"
      [] c = "T" -> "t"
      [] c = "E" -> "e"
      [] c = "C" -> "c"
      [] c = "H" -> "h"
      [] OTHER   -> c

\* str.lower
Lower(str) == [i \in 1..Len(str) |-> LowerChar(str[i])]

\* the `in` operator on strings
Contains(str, sub) ==
    \E i \in 0..(Len(str) - Len(sub)) :
        SubSeq(str, i + 1, i + Len(sub)) = sub

\* mutant: only the value of a header is measured
HeaderSizeValueOnly(h) == Len(h.value)

\* _run, line 66: size = len(key) + len(value)
HeaderSize(h) == Len(h.name) + Len(h.value)

\* mutant: a list of exactly max_header_count headers is refused
TooManyInclusive(raw_headers) ==
    Len(raw_headers) >= hdr_cfg.max_header_count

\* _run, line 57: the count check
TooMany(raw_headers) ==
    Len(raw_headers) > hdr_cfg.max_header_count

\* _run, lines 63-76: the loop over the headers from index i on; it raises on
\* the first header over the per-header limit, else returns total_bytes
RECURSIVE SizeLoop(_, _, _)
SizeLoop(raw_headers, i, total_bytes) ==
    IF i > Len(raw_headers)
    THEN [raised |-> FALSE, total_bytes |-> total_bytes]
    ELSE LET size == HeaderSize(raw_headers[i])
         IN  IF size > hdr_cfg.max_single_header_bytes
             THEN [raised |-> TRUE, total_bytes |-> total_bytes + size]
             ELSE SizeLoop(raw_headers, i + 1, total_bytes + size)

\* _run, line 87-88: headers_map.get("transfer-encoding"); a later header of
\* the same lower-cased name replaces an earlier one in the dict
RECURSIVE MapGet(_, _, _)
MapGet(raw_headers, key, found) ==
    IF raw_headers = << >> THEN found
    ELSE MapGet(Tail(raw_headers), key,
                IF Lower(Head(raw_headers).name) = key
                THEN [present |-> TRUE, value |-> Head(raw_headers).value]
                ELSE found)

\* _run, lines 90-95: the chunked check
ChunkedRefused(raw_headers) ==
    LET transfer == MapGet(raw_headers, TRANSFER_ENCODING,
                           [present |-> FALSE, value |-> << >>])
    IN  /\ ~hdr_cfg.allow_chunked
        /\ transfer.present
        /\ transfer.value # << >>
        /\ Contains(Lower(transfer.value), CHUNKED)

\* _run: the HTTPException it raises, or "none"
HeaderCheck(raw_headers) ==
    IF TooMany(raw_headers)
    THEN [status |-> HTTP_431, detail |-> "too_many"]
    ELSE LET loop == SizeLoop(raw_headers, 1, 0)
         IN  IF loop.raised
             THEN [status |-> HTTP_431, detail |-> "per_header"]
             ELSE IF loop.total_bytes > hdr_cfg.max_total_header_bytes
             THEN [status |-> HTTP_431, detail |-> "total"]
             ELSE IF ChunkedRefused(raw_headers)
             THEN [status |-> HTTP_501, detail |-> "chunked"]
             ELSE [status |-> 0, detail |-> "none"]

HeaderIdle ==
    /\ hdr_cfg = [scope_type |-> "none"]
    /\ hdr_pc = "idle"
    /\ hdr_sent = << >>
    /\ hdr_app = << >>

HeaderInit ==
    /\ hdr_cfg \in [scope_type              : {"http", "websocket"},
                    headers                 : HeaderLists,
                    max_header_count        : 1..CountCap,
                    max_single_header_bytes : 2..SingleCap,
                    max_total_header_bytes  : 3..TotalCap,
                    allow_chunked           : BOOLEAN]
    /\ hdr_pc = "new"
    /\ hdr_sent = << >>
    /\ hdr_app = << >>

\* mutant: the next layer is given the lower-cased names of headers_map
NextLayerArgsLowered(raw_headers) ==
    [headers |-> [i \in 1..Len(raw_headers) |->
                    [name  |-> Lower(raw_headers[i].name),
                     value |-> raw_headers[i].value]],
     receive |-> "receive"]

\* lines 37 and 97: self.app(scope, receive, send); scope["headers"] is the
\* list the guard read and receive is the callable the guard was given
NextLayerArgs(raw_headers) ==
    [headers |-> raw_headers, receive |-> "receive"]

\* __call__ with _run: a non-http scope goes straight to the next layer
HeaderCall ==
    /\ hdr_pc = "new"
    /\ IF hdr_cfg.scope_type # "http"
       THEN /\ hdr_app' = Append(hdr_app, NextLayerArgs(hdr_cfg.headers))
            /\ hdr_pc' = "bypass"
            /\ UNCHANGED hdr_sent
       ELSE LET exc == HeaderCheck(hdr_cfg.headers)
            IN  IF exc.detail # "none"
                THEN /\ hdr_sent' = Append(hdr_sent, exc)
                     /\ hdr_pc' = "rejected"
                     /\ UNCHANGED hdr_app
                ELSE /\ hdr_app' = Append(hdr_app, NextLayerArgs(hdr_cfg.headers))
                     /\ hdr_pc' = "forwarded"
                     /\ UNCHANGED hdr_sent
    /\ UNCHANGED <<hdr_cfg, rateVars, bodyVars, extVars, auxVars>>

HeaderNext == HeaderCall

(***************************************************************************)
(* The middleware stack built by create_app, one HTTP request.             *)
(*                                                                         *)
(* Every layer is entered with the scope its outer neighbour handed on;    *)
(* a layer either answers the request itself or calls the next layer.      *)
(* The request carries no body, so the streaming part of the body-limit    *)
(* guard and the timers of the timeout guard stay silent here; they are    *)
(* specified in SpecBody and SpecTimeout.  The limits of create_app are    *)
(* scaled down, keeping their order: the allow list of the sanitizer       *)
(* holds no more names than max_header_count.                              *)
(***************************************************************************)
\* create_app: the add_middleware calls in source order
AddOrder ==
    << "Prometheus", "RequestTimeout", "RateLimit", "MethodWhitelist",
       "RequestHeaderLimit", "HeaderSanitization", "ContentTypeEnforcement",
       "RequestBodyLimit", "SecurityHeaders", "CustomCORS", "RequestLogging",
       "RequestContext", "RequestCleanup" >>

\* add_middleware puts each class in front of the ones added before it, so
\* the stack is entered in the reverse of the source order
Pipeline == [i \in 1..Len(AddOrder) |-> AddOrder[Len(AddOrder) + 1 - i]]

CONTENT_LENGTH == <<"c", "l">>
CONTENT_TYPE == <<"c", "t">>

\* create_app: the arguments of the guards, scaled
PipeLimits ==
    [max_header_count        |-> 3,
     max_single_header_bytes |-> 4,
     max_total_header_bytes  |-> 7,
     allow_chunked           |-> FALSE,
     max_body_bytes          |-> 2,
     allowed_methods         |-> {"GET", "PUT", "OPTIONS"},
     default_allowed         |-> { <<"j">> }]

\* HeaderSanitizationASGIMiddleware.BLOCKLIST and ALLOWLIST, the names used
BLOCKLIST == { TRANSFER_ENCODING }
ALLOWLIST == { <<"a">>, CONTENT_LENGTH, CONTENT_TYPE }

\* the headers a request is built from: "cl" is content-length, "ct" is
\* content-type with "j" for application/json, "b" is on no list
PipeHeaders ==
    { [name |-> <<"a">>,      value |-> <<"x">>],
      [name |-> <<"b">>,      value |-> <<"x", "x">>],
      [name |-> <<"t", "e">>, value |-> <<"c", "h">>],
      [name |-> <<"c", "l">>, value |-> <<"1">>],
      [name |-> <<"c", "l">>, value |-> <<"9">>],
      [name |-> <<"c", "l">>, value |-> <<"x">>],
      [name |-> <<"c", "t">>, value |-> <<"j">>] }

PipeHeaderLists ==
    UNION { [1..n -> PipeHeaders] : n \in 0..(PipeLimits.max_header_count + 1) }

PipeMethods == {"GET", "PUT", "TRACE", "OPTIONS"}

\* the value of one decimal digit, -1 for any other character
DigitOf(c) ==
    CASE c = "0" -> 0
      [] c = "1" -> 1
      [] c = "2" -> 2
      [] c = "9" -> 9
      [] OTHER   -> -1

\* int() on a string of digits read so far as acc; -1 stands for ValueError
RECURSIVE ParseInt(_, _)
ParseInt(str, acc) ==
    IF str = << >> THEN acc
    ELSE IF DigitOf(Head(str)) < 0 THEN -1
    ELSE ParseInt(Tail(str), acc * 10 + DigitOf(Head(str)))

\* RequestBodyLimitASGIMiddleware._run, lines 94-97: headers.get and int()
DeclaredLength(raw_headers) ==
    LET content_length == MapGet(raw_headers, CONTENT_LENGTH,
                                 [present |-> FALSE, value |-> << >>])
        declared == IF content_length.value = << >> THEN -1
                    ELSE ParseInt(content_length.value, 0)
    IN  IF ~content_length.present THEN [kind |-> "absent", value |-> 0]
        ELSE IF declared < 0 THEN [kind |-> "invalid", value |-> 0]
        ELSE [kind |-> "int", value |-> declared]

\* VALID_NAME_RE, ^[A-Za-z0-9-]+$ : the characters of that class used here
ValidName(name) ==
    /\ name # << >>
    /\ \A i \in 1..Len(name) :
           name[i] \in {"a", "b", "c", "e", "l", "t", "0", "1", "9", "-"}

\* INVALID_VALUE_CHARS: a carriage return or a line feed in the value
HasControlChar(value) ==
    \E i \in 1..Len(value) : value[i] \in {"\r", "\n"}

\* bytes.decode(), lines 93-94: TRUE when the bytes are UTF-8, FALSE when
\* decode raises UnicodeDecodeError
Decodes(bytes) == \A i \in 1..Len(bytes) : bytes[i] # "0xE9"

\* HeaderSanitizationASGIMiddleware._run: the loop from header i on, with the
\* names seen and the headers kept so far; it raises or returns the kept
\* list.  The detail "undecodable" stands for the UnicodeDecodeError of
\* decode, every other detail for an HTTPException with status 400.
RECURSIVE Sanitize(_, _, _, _)
Sanitize(raw_headers, i, seen, cleaned_headers) ==
    IF i > Len(raw_headers)
    THEN [raised |-> FALSE, detail |-> "none", headers |-> cleaned_headers]
    ELSE LET name == Lower(raw_headers[i].name)
             value == raw_headers[i].value
         IN  IF ~Decodes(raw_headers[i].name) \/ ~Decodes(value)
             THEN [raised |-> TRUE, detail |-> "undecodable",
                   headers |-> << >>]
             ELSE IF name \in BLOCKLIST
             THEN [raised |-> TRUE, detail |-> "blocked", headers |-> << >>]
             ELSE IF name \in seen
             THEN [raised |-> TRUE, detail |-> "duplicate", headers |-> << >>]
             ELSE IF ~ValidName(name)
             THEN [raised |-> TRUE, detail |-> "bad_name", headers |-> << >>]
             ELSE IF HasControlChar(value)
             THEN [raised |-> TRUE, detail |-> "bad_value", headers |-> << >>]
             ELSE IF name \notin ALLOWLIST
             THEN Sanitize(raw_headers, i + 1, seen \cup {name}, cleaned_headers)
             ELSE Sanitize(raw_headers, i + 1, seen \cup {name},
                           Append(cleaned_headers, raw_headers[i]))

\* ContentTypeEnforcementASGIMiddleware._run_content_type_logic: the detail
\* of the 415 it raises, or "none"
ContentTypeCheck(method, raw_headers) ==
    LET content_type == MapGet(raw_headers, CONTENT_TYPE,
                               [present |-> FALSE, value |-> << >>])
    IN  IF method \in {"GET", "DELETE", "HEAD", "OPTIONS"}
        THEN IF content_type.present THEN "no_body_method" ELSE "none"
        ELSE IF method \in {"POST", "PUT", "PATCH"}
        THEN IF ~content_type.present THEN "missing"
             ELSE IF Lower(content_type.value) \notin PipeLimits.default_allowed
             THEN "not_allowed"
             ELSE "none"
        ELSE "none"

PipeIdle ==
    /\ pipe_req = [method |-> "none"]
    /\ pipe_headers = << >>
    /\ pipe_at = 0
    /\ pipe_entered = << >>
    /\ pipe_sent = << >>
    /\ pipe_pc = "idle"

\* the limits of create_app, read by HeaderCheck
PipeHeaderCfg ==
    /\ hdr_cfg = [scope_type              |-> "http",
                  max_header_count        |-> PipeLimits.max_header_count,
                  max_single_header_bytes |-> PipeLimits.max_single_header_bytes,
                  max_total_header_bytes  |-> PipeLimits.max_total_header_bytes,
                  allow_chunked           |-> PipeLimits.allow_chunked]
    /\ hdr_pc = "idle"
    /\ hdr_sent = << >>
    /\ hdr_app = << >>

PipeInit ==
    /\ pipe_req \in [method  : PipeMethods,
                     headers : PipeHeaderLists,
                     allowed : BOOLEAN]
    /\ pipe_headers = pipe_req.headers
    /\ pipe_at = 1
    /\ pipe_entered = << >>
    /\ pipe_sent = << >>
    /\ pipe_pc = "new"

\* the layer about to be entered
Layer == Pipeline[pipe_at]

\* a layer calls self.app: the next layer is entered, or the router
Forward(scope_headers) ==
    /\ pipe_entered' = Append(pipe_entered, Layer)
    /\ pipe_headers' = scope_headers
    /\ pipe_at' = pipe_at + 1
    /\ pipe_pc' = "run"
    /\ UNCHANGED <<pipe_req, pipe_sent>>

\* mutant: a layer answers the request and calls the next layer all the same
AnswerAndForward(status, detail) ==
    /\ pipe_entered' = Append(pipe_entered, Layer)
    /\ pipe_sent' = Append(pipe_sent,
                           [status |-> status, detail |-> detail, by |-> Layer])
    /\ pipe_at' = pipe_at + 1
    /\ pipe_pc' = "run"
    /\ UNCHANGED <<pipe_req, pipe_headers>>

\* a layer answers the request itself and returns
Answer(status, detail) ==
    /\ pipe_entered' = Append(pipe_entered, Layer)
    /\ pipe_sent' = Append(pipe_sent,
                           [status |-> status, detail |-> detail, by |-> Layer])
    /\ pipe_pc' = "answered"
    /\ UNCHANGED <<pipe_req, pipe_headers, pipe_at>>

Entering(name) ==
    /\ pipe_pc \in {"new", "run"}
    /\ pipe_at <= Len(Pipeline)
    /\ Layer = name

\* the layers that only wrap send or clean up after the call
PassThrough ==
    /\ \E name \in {"RequestCleanup", "RequestContext", "RequestLogging",
                    "SecurityHeaders", "RequestTimeout", "Prometheus"} :
           Entering(name)
    /\ Forward(pipe_headers)
    /\ UNCHANGED <<rateVars, bodyVars, hdrVars, tmoVars, lateVars, auxVars>>

\* CustomCORSASGIMiddleware._run_cors_logic; the request names no origin
CustomCORS ==
    /\ Entering("CustomCORS")
    /\ IF pipe_req.method = "OPTIONS"
       THEN Answer(204, "preflight")
       ELSE Forward(pipe_headers)
    /\ UNCHANGED <<rateVars, bodyVars, hdrVars, tmoVars, lateVars, auxVars>>

\* RequestBodyLimitASGIMiddleware.__call__ and _run up to self.app
RequestBodyLimit ==
    /\ Entering("RequestBodyLimit")
    /\ LET check == PreCheck(DeclaredLength(pipe_headers),
                             PipeLimits.max_body_bytes)
       IN  IF check = "pass"
           THEN Forward(pipe_headers)
           ELSE Answer(HTTP_413, check)
    /\ UNCHANGED <<rateVars, bodyVars, hdrVars, tmoVars, lateVars, auxVars>>

\* ContentTypeEnforcementASGIMiddleware.__call__
ContentTypeEnforcement ==
    /\ Entering("ContentTypeEnforcement")
    /\ LET detail == ContentTypeCheck(pipe_req.method, pipe_headers)
       IN  IF detail = "none"
           THEN Forward(pipe_headers)
           ELSE Answer(415, detail)
    /\ UNCHANGED <<rateVars, bodyVars, hdrVars, tmoVars, lateVars, auxVars>>

\* HeaderSanitizationASGIMiddleware.__call__: scope["headers"] is replaced
HeaderSanitization ==
    /\ Entering("HeaderSanitization")
    /\ LET result == Sanitize(pipe_headers, 1, {}, << >>)
       IN  IF result.raised
           THEN Answer(400, result.detail)
           ELSE Forward(result.headers)
    /\ UNCHANGED <<rateVars, bodyVars, hdrVars, tmoVars, lateVars, auxVars>>

\* RequestHeaderLimitASGIMiddleware.__call__
RequestHeaderLimit ==
    /\ Entering("RequestHeaderLimit")
    /\ LET exc == HeaderCheck(pipe_headers)
       IN  IF exc.detail = "none"
           THEN Forward(pipe_headers)
           ELSE Answer(exc.status, exc.detail)
    /\ UNCHANGED <<rateVars, bodyVars, hdrVars, tmoVars, lateVars, auxVars>>

\* MethodWhitelistASGIMiddleware.__call__
MethodWhitelist ==
    /\ Entering("MethodWhitelist")
    /\ IF pipe_req.method \in PipeLimits.allowed_methods
       THEN Forward(pipe_headers)
       ELSE Answer(405, "method")
    /\ UNCHANGED <<rateVars, bodyVars, hdrVars, tmoVars, lateVars, auxVars>>

\* RateLimitASGIMiddleware.__call__; the verdict of limiter.allow is an input
RateLimit ==
    /\ Entering("RateLimit")
    /\ IF pipe_req.allowed
       THEN Forward(pipe_headers)
       ELSE Answer(429, "rate")
    /\ UNCHANGED <<rateVars, bodyVars, hdrVars, tmoVars, lateVars, auxVars>>

\* the innermost layer called self.app: the router runs the handler
Router ==
    /\ pipe_pc = "run"
    /\ pipe_at = Len(Pipeline) + 1
    /\ pipe_entered' = Append(pipe_entered, "Router")
    /\ pipe_sent' = Append(pipe_sent,
                           [status |-> 200, detail |-> "ok", by |-> "Router"])
    /\ pipe_pc' = "routed"
    /\ UNCHANGED <<pipe_req, pipe_headers, pipe_at>>
    /\ UNCHANGED <<rateVars, bodyVars, hdrVars, tmoVars, lateVars, auxVars>>

PipeNext ==
    \/ PassThrough
    \/ CustomCORS
    \/ RequestBodyLimit
    \/ ContentTypeEnforcement
    \/ HeaderSanitization
    \/ RequestHeaderLimit
    \/ MethodWhitelist
    \/ RateLimit
    \/ Router

(***************************************************************************)
(* Timeout guard: RequestTimeoutASGIMiddleware, one request.               *)
(*                                                                         *)
(* Time is the event loop's clock in integer ticks.  A call of             *)
(* timed_receive reads the clock once, before it awaits the transport;     *)
(* the transport's message arrives `wait` ticks later, or the deadline of  *)
(* asyncio.wait_for passes first.  When both fall on the same tick either  *)
(* may win.                                                                *)
(***************************************************************************)
MaxTmoTime == 6
MaxWait == 3
MaxCalls == 3

HTTP_408 == 408

\* __init__: header_timeout, chunk_timeout, total_timeout
TimeoutConfigs ==
    { [header_timeout |-> 2, chunk_timeout |-> 1, total_timeout |-> 3],
      [header_timeout |-> 1, chunk_timeout |-> 2, total_timeout |-> 2],
      [header_timeout |-> 2, chunk_timeout |-> 2, total_timeout |-> 4],
      [header_timeout |-> 3, chunk_timeout |-> 1, total_timeout |-> 1] }

TimeoutIdle ==
    /\ tmo_cfg = [scope_type |-> "none"]
    /\ tmo_clock = 0
    /\ start_time = 0
    /\ received_headers = FALSE
    /\ tmo_pc = "idle"
    /\ tmo_calls = << >>
    /\ tmo_sent = << >>

TimeoutInit ==
    /\ \E c \in TimeoutConfigs :
         \E scope_type \in {"http", "websocket"} :
           tmo_cfg = [scope_type     |-> scope_type,
                      header_timeout |-> c.header_timeout,
                      chunk_timeout  |-> c.chunk_timeout,
                      total_timeout  |-> c.total_timeout]
    /\ tmo_clock \in 0..1
    /\ start_time = 0
    /\ received_headers = FALSE
    /\ tmo_pc = "new"
    /\ tmo_calls = << >>
    /\ tmo_sent = << >>

\* __call__ and _run up to the call of self.app
TimeoutCall ==
    /\ tmo_pc = "new"
    /\ IF tmo_cfg.scope_type # "http"
       THEN /\ tmo_pc' = "bypass"
            /\ UNCHANGED start_time
       ELSE /\ tmo_pc' = "app"
            /\ start_time' = tmo_clock
    /\ UNCHANGED <<tmo_cfg, tmo_clock, received_headers, tmo_calls, tmo_sent>>
    /\ UNCHANGED <<rateVars, bodyVars, hdrVars, pipeVars, lateVars, auxVars>>

\* the downstream application runs for a tick between two receive calls
DownstreamRuns ==
    /\ tmo_pc = "app"
    /\ tmo_clock < MaxTmoTime
    /\ tmo_clock' = tmo_clock + 1
    /\ UNCHANGED <<tmo_cfg, start_time, received_headers, tmo_pc, tmo_calls,
                   tmo_sent>>
    /\ UNCHANGED <<rateVars, bodyVars, hdrVars, pipeVars, lateVars, auxVars>>

\* timed_receive, lines 64-65: the check made before awaiting
HeaderDeadlinePassed(now) ==
    /\ ~received_headers
    /\ now - start_time > tmo_cfg.header_timeout

\* mutant: the deadline is header_timeout whatever has been received
WaitDeadlineHeaderOnly == tmo_cfg.header_timeout

\* timed_receive, lines 74-76: the deadline handed to asyncio.wait_for
WaitDeadline ==
    IF received_headers THEN tmo_cfg.chunk_timeout ELSE tmo_cfg.header_timeout

\* timed_receive, line 88: the total check, made with the clock value read
\* before the await
TotalExceeded(now) ==
    now - start_time > tmo_cfg.total_timeout

\* the transport has delivered the last message of the body
BodyEnded ==
    \E k \in 1..Len(tmo_calls) :
        /\ tmo_calls[k].type = "http.request"
        /\ ~tmo_calls[k].more_body

\* timed_receive raises: the HTTPException reaches __call__ through the
\* downstream ("guard"), or the downstream's own exception handler
\* answers it ("downstream"); either way one 408 response is sent.  A
\* downstream that catches the exception and goes on ("caught") sends
\* nothing and may call timed_receive again.
TimeoutRaise(now, at, type, more_body, detail, handler) ==
    /\ tmo_calls' = Append(tmo_calls,
                           [now |-> now, at |-> at, type |-> type,
                            more_body |-> more_body,
                            first |-> ~received_headers, outcome |-> detail])
    /\ tmo_clock' = at
    /\ IF handler = "caught"
       THEN UNCHANGED <<tmo_sent, tmo_pc>>
       ELSE /\ tmo_sent' = Append(tmo_sent, [type |-> "http.response.start",
                                             status |-> HTTP_408,
                                             detail |-> detail,
                                             by |-> handler])
            /\ tmo_pc' = "rejected"

\* timed_receive: one call by the downstream; the transport's next message
\* is of the given type and arrives `wait` ticks after the call; after the
\* end of the body the transport has only http.disconnect to deliver
TimedReceive(wait, type, more_body, race, handler) ==
    /\ tmo_pc = "app"
    /\ Len(tmo_calls) < MaxCalls
    /\ type = "http.request" => ~BodyEnded
    /\ type = "http.disconnect" => ~more_body
    /\ LET now == tmo_clock
           arrival == now + wait
       IN  IF HeaderDeadlinePassed(now)
           THEN /\ TimeoutRaise(now, now, "none", FALSE, "header", handler)
                /\ UNCHANGED received_headers
           ELSE IF wait > WaitDeadline \/ (wait = WaitDeadline /\ race)
           THEN /\ now + WaitDeadline <= MaxTmoTime
                /\ TimeoutRaise(now, now + WaitDeadline, "none", FALSE,
                                "chunk", handler)
                /\ UNCHANGED received_headers
           ELSE /\ arrival <= MaxTmoTime
                /\ received_headers' = (received_headers \/ type = "http.request")
                /\ IF type = "http.request" /\ TotalExceeded(now)
                   THEN TimeoutRaise(now, arrival, type, more_body, "total",
                                     handler)
                   ELSE /\ tmo_calls' = Append(tmo_calls,
                               [now |-> now, at |-> arrival, type |-> type,
                                more_body |-> more_body,
                                first |-> ~received_headers,
                                outcome |-> "forwarded"])
                        /\ tmo_clock' = arrival
                        /\ UNCHANGED <<tmo_pc, tmo_sent>>
    /\ UNCHANGED <<tmo_cfg, start_time>>
    /\ UNCHANGED <<rateVars, bodyVars, hdrVars, pipeVars, lateVars, auxVars>>

\* self.app returns without an exception
TimeoutAppReturn ==
    /\ tmo_pc = "app"
    /\ tmo_pc' = "done"
    /\ UNCHANGED <<tmo_cfg, tmo_clock, start_time, received_headers, tmo_calls,
                   tmo_sent>>
    /\ UNCHANGED <<rateVars, bodyVars, hdrVars, pipeVars, lateVars, auxVars>>

TimeoutNext ==
    \/ TimeoutCall
    \/ DownstreamRuns
    \/ \E wait \in 0..MaxWait :
         \E type \in {"http.request", "http.disconnect"} :
           \E more_body, race \in BOOLEAN :
             \E handler \in {"guard", "downstream", "caught"} :
               TimedReceive(wait, type, more_body, race, handler)
    \/ TimeoutAppReturn

(***************************************************************************)
(* Rate-limit guard: RateLimitASGIMiddleware over one RateLimiter.         *)
(*                                                                         *)
(* A request is handled in one step: allow() does not suspend, and the     *)
(* verdict decides between the 429 answer and the call of the next layer.  *)
(***************************************************************************)
HTTP_429 == 429

UNKNOWN == "unknown"

\* scope["client"]: absent, or an address
ScopeClients ==
    { [present |-> FALSE, host |-> ""],
      [present |-> TRUE,  host |-> "1.2.3.4"] }

\* the keys the guard can hand to the limiter
GuardKeys == {"1.2.3.4", UNKNOWN}

\* the limiters the guard is built over
GuardConfigs ==
    { c \in RateConfigs : c.gc_interval <= c.burst_window }

\* mutant: every request is counted under the shared key
GetClientIpShared(client) == UNKNOWN

\* get_client_ip
GetClientIp(client) == IF client.present THEN client.host ELSE UNKNOWN

GuardIdle ==
    /\ rg_req = [scope_type |-> "none"]
    /\ rg_allow_calls = 0
    /\ rg_sent = << >>
    /\ rg_forwarded = 0

RateGuardInit ==
    /\ cfg \in GuardConfigs
    /\ clients = << >>
    /\ last_gc = 0
    /\ clock = 0
    /\ call = NoCall
    /\ run = [c \in GuardKeys |-> NoRun]
    /\ evicted = {}
    /\ GuardIdle

\* __call__ for a scope that is not http: straight to the next layer
RateGuardBypass(scope_type, client) ==
    /\ scope_type # "http"
    /\ rg_req' = [scope_type |-> scope_type, client |-> client]
    /\ rg_allow_calls' = 0
    /\ rg_sent' = << >>
    /\ rg_forwarded' = 1
    /\ UNCHANGED <<rateVars, bodyVars, hdrVars, extVars, indepVars, admitVars>>

\* __call__ with _run_rate_limit for an http scope, the clock read by allow()
\* as in Allow
RateGuardRequest(client) ==
    LET ip == GetClientIp(client)
    IN  /\ \E t0 \in clock..MaxTime :
             \E t_refill \in t0..Min(t0 + (IF ip \in DOMAIN clients
                                           THEN 0 ELSE MaxDrift), MaxTime) :
               \E t_gc \in t_refill..Min(t_refill + MaxDrift, MaxTime) :
                 AllowAt(ip, t0, t_refill, t_gc)
        /\ rg_req' = [scope_type |-> "http", client |-> client]
        /\ rg_allow_calls' = 1
        /\ IF call'.allowed
           THEN /\ rg_sent' = << >>
                /\ rg_forwarded' = 1
           ELSE /\ rg_sent' = << [status |-> HTTP_429, detail |-> "slow_down"] >>
                /\ rg_forwarded' = 0
        /\ UNCHANGED <<indepVars, admitVars>>

RateGuardNext ==
    \/ \E scope_type \in {"websocket", "lifespan"} :
         \E client \in ScopeClients : RateGuardBypass(scope_type, client)
    \/ \E client \in ScopeClients : RateGuardRequest(client)

(***************************************************************************)
(* Two runs of one RateLimiter side by side: the run in which clients A    *)
(* and B both call allow(), and the run in which only B's calls are made,  *)
(* at the same times.  In the second run B's bucket is the only one.       *)
(***************************************************************************)
CLIENT_A == "1.2.3.4"
CLIENT_B == "5.6.7.8"

\* the limiters compared
IndepConfigs ==
    { c \in RateConfigs : c.max_burst <= 2 }

NoBucket == [present |-> FALSE]

IndepIdle ==
    /\ alone = NoBucket
    /\ alone_last_gc = 0
    /\ verdicts = [ip |-> "none"]

IndepInit ==
    /\ cfg \in IndepConfigs
    /\ clients = << >>
    /\ last_gc = 0
    /\ clock = 0
    /\ call = NoCall
    /\ run = [c \in Clients |-> NoRun]
    /\ evicted = {}
    /\ IndepIdle

\* _get_state, _refill and the decision of allow(B) in the run without A
AloneFilled(t_new, t_refill) ==
    Refill(IF alone.present THEN alone.state ELSE New(t_new), t_refill)

\* _gc in the run without A: whether the pass runs, and whether it deletes
\* the one bucket there is
AloneGcRuns(t_gc) == ~((t_gc - alone_last_gc) < cfg.gc_interval)

AloneGcDeletes(filled, t_gc) ==
    /\ AloneGcRuns(t_gc)
    /\ (t_gc - filled.last_seen) > cfg.sustained_period * 2

\* allow(ip) in the run with both clients; allow(B) is made in the run
\* without A as well, with the same clock reads
IndepAllowAt(ip, t_new, t_refill, t_gc) ==
    /\ AllowAt(ip, t_new, t_refill, t_gc)
    /\ IF ip = CLIENT_B
       THEN LET filled == AloneFilled(t_new, t_refill)
            IN  /\ alone' = IF AloneGcDeletes(filled, t_gc)
                            THEN NoBucket
                            ELSE [present |-> TRUE, state |-> Consume(filled)]
                /\ alone_last_gc' = IF AloneGcRuns(t_gc) THEN t_gc
                                    ELSE alone_last_gc
                /\ verdicts' = [ip |-> ip, together |-> call'.allowed,
                                without_a |-> Admitted(filled)]
       ELSE /\ verdicts' = [ip |-> ip]
            /\ UNCHANGED <<alone, alone_last_gc>>
    /\ UNCHANGED <<guardVars, admitVars>>

IndepAllow ==
    \E ip \in {CLIENT_A, CLIENT_B} :
      \E t0 \in clock..MaxTime :
        \E t_refill \in t0..Min(t0 + MaxDrift, MaxTime) :
          \E t_gc \in t_refill..Min(t_refill + MaxDrift, MaxTime) :
            IndepAllowAt(ip, t0, t_refill, t_gc)

IndepNext == IndepAllow

(***************************************************************************)
(* The exception handling of the middleware classes: one layer, entered    *)
(* with a request that passes its own checks, whose next layer raises.     *)
(***************************************************************************)
\* the middleware classes of app/middleware that create_app wires, and
\* ErrorLoggingASGIMiddleware
ExcLayers ==
    { AddOrder[i] : i \in 1..Len(AddOrder) } \cup {"ErrorLogging"}

\* the layers whose __call__ wraps the call in `except HTTPException`
CatchingLayers ==
    { "RequestTimeout", "RateLimit", "MethodWhitelist", "RequestHeaderLimit",
      "HeaderSanitization", "ContentTypeEnforcement", "RequestBodyLimit",
      "CustomCORS" }

\* exception classes and their direct base class
BaseOf(cls) ==
    CASE cls = "fastapi.HTTPException"   -> "starlette.HTTPException"
      [] cls = "starlette.HTTPException" -> "Exception"
      [] cls = "RequestValidationError"  -> "Exception"
      [] cls = "RuntimeError"            -> "Exception"
      [] cls = "ValueError"              -> "Exception"
      [] cls = "TimeoutError"            -> "Exception"
      [] cls = "Exception"               -> "BaseException"
      [] cls = "CancelledError"          -> "BaseException"
      [] OTHER                           -> "object"

\* isinstance(exc, base)
RECURSIVE IsInstance(_, _)
IsInstance(cls, base) ==
    IF cls = base THEN TRUE
    ELSE IF cls = "object" THEN FALSE
    ELSE IsInstance(BaseOf(cls), base)

\* what the next layer can raise
Thrown ==
    [cls    : {"fastapi.HTTPException", "starlette.HTTPException"},
     status : {404, HTTP_408, HTTP_413},
     detail : {"text"}]
    \cup
    [cls    : {"RequestValidationError", "RuntimeError", "ValueError",
               "TimeoutError", "CancelledError"},
     status : {0},
     detail : {"text"}]

NoExc == [cls |-> "none", status |-> 0, detail |-> "none"]

ExceptIdle ==
    /\ exc_cfg = [layer |-> "none"]
    /\ exc_pc = "idle"
    /\ exc_thrown = NoExc
    /\ exc_out = NoExc
    /\ exc_sent = << >>

ExceptInit ==
    /\ exc_cfg \in [layer : ExcLayers]
    /\ exc_pc = "new"
    /\ exc_thrown = NoExc
    /\ exc_out = NoExc
    /\ exc_sent = << >>

\* mutant: the clause is `except Exception`
CatchesException(layer, exc) ==
    /\ layer \in CatchingLayers
    /\ IsInstance(exc.cls, "Exception")

\* `except HTTPException as exc` of a guard's __call__
Catches(layer, exc) ==
    /\ layer \in CatchingLayers
    /\ IsInstance(exc.cls, "starlette.HTTPException")

\* __call__ up to `await self.app(...)`
ExceptCall ==
    /\ exc_pc = "new"
    /\ exc_pc' = "app"
    /\ UNCHANGED <<exc_cfg, exc_thrown, exc_out, exc_sent>>
    /\ UNCHANGED excRest

\* the next layer raises exc: the except clause answers it with the
\* response of http_exception_handler, or the exception leaves __call__
NextLayerRaises(exc) ==
    /\ exc_pc = "app"
    /\ exc_thrown' = exc
    /\ IF Catches(exc_cfg.layer, exc)
       THEN /\ exc_sent' = Append(exc_sent,
                                  [status |-> exc.status, by |-> exc_cfg.layer])
            /\ exc_out' = NoExc
            /\ exc_pc' = "answered"
       ELSE /\ exc_out' = exc
            /\ exc_pc' = "raised"
            /\ UNCHANGED exc_sent
    /\ UNCHANGED exc_cfg
    /\ UNCHANGED excRest

\* the next layer returns
NextLayerReturns ==
    /\ exc_pc = "app"
    /\ exc_pc' = "returned"
    /\ UNCHANGED <<exc_cfg, exc_thrown, exc_out, exc_sent>>
    /\ UNCHANGED excRest

ExceptNext ==
    \/ ExceptCall
    \/ \E exc \in Thrown : NextLayerRaises(exc)
    \/ NextLayerReturns

(***************************************************************************)
(* Rejection responses: the bodies the guards answer with.                 *)
(* handlers/exception_handler.py, common/handlers/exception_handler.py,    *)
(* models/error_model.py, middleware/rate_limiter.py,                      *)
(* middleware/request_limiter.py                                           *)
(***************************************************************************)
\* the wall clock of datetime.now(UTC) advances in steps of half a
\* millisecond, up to MaxRespTime steps
MaxRespTime == 3

\* the guards that raise HTTPException and answer it in their __call__ with
\* app.handlers.exception_handler.http_exception_handler
WiredGuards == CatchingLayers

\* the rejections each of these guards raises: status code and detail
Rejections ==
    {[guard |-> "RequestTimeout", status |-> HTTP_408, detail |-> "header"],
     [guard |-> "RequestTimeout", status |-> HTTP_408, detail |-> "chunk"],
     [guard |-> "RequestTimeout", status |-> HTTP_408, detail |-> "total"],
     [guard |-> "RateLimit", status |-> HTTP_429, detail |-> "too many"],
     [guard |-> "MethodWhitelist", status |-> 405, detail |-> "method"],
     [guard |-> "RequestHeaderLimit", status |-> HTTP_431, detail |-> "size"],
     [guard |-> "RequestHeaderLimit", status |-> HTTP_501, detail |-> "chunked"],
     [guard |-> "HeaderSanitization", status |-> 400, detail |-> "header"],
     [guard |-> "ContentTypeEnforcement", status |-> 415, detail |-> "type"],
     [guard |-> "RequestBodyLimit", status |-> HTTP_413, detail |-> "length"],
     [guard |-> "RequestBodyLimit", status |-> HTTP_413, detail |-> "size"],
     [guard |-> "CustomCORS", status |-> 403, detail |-> "origin"]}

\* _now(): datetime.now(UTC).isoformat(), a string that keeps the clock's
\* resolution
IsoNow(now) == [type |-> "str", format |-> "iso-8601", value |-> now]

\* int(datetime.now(UTC).timestamp() * 1_000): whole milliseconds
EpochMs(now) == [type |-> "int", format |-> "epoch-ms", value |-> now \div 2]

\* app.handlers.exception_handler.http_exception_handler
HttpExceptionHandler(exc, now) ==
    [status_code |-> exc.status,
     content     |-> [status    |-> exc.status,
                      message   |-> exc.detail,
                      timestamp |-> IsoNow(now)]]

\* models.error_model.error_response
ErrorResponse(status, message, now) ==
    [status_code |-> status,
     content     |-> [status    |-> status,
                      message   |-> message,
                      timestamp |-> EpochMs(now)]]

\* app.common.handlers.exception_handler.http_exception_handler
CommonHttpExceptionHandler(exc, now) ==
    ErrorResponse(exc.status, exc.detail, now)

\* the 429 of middleware/rate_limiter.py
TooManyRequests(now) ==
    [status_code |-> HTTP_429,
     content     |-> [status    |-> HTTP_429,
                      message   |-> "too many",
                      timestamp |-> IsoNow(now)]]

\* RequestSizeLimitASGIMiddleware._reject
Reject(now) ==
    [status_code |-> HTTP_413,
     content     |-> [error |-> [status    |-> HTTP_413,
                                 message   |-> "size",
                                 timestamp |-> IsoNow(now)]]]

NoResponse == [status_code |-> 0, content |-> [none |-> TRUE]]

\* the timestamp a body carries, wherever the body keeps it
TimestampOf(content) ==
    IF "timestamp" \in DOMAIN content THEN content.timestamp
    ELSE content.error.timestamp

RespIdle ==
    /\ resp_clock = 0
    /\ resp_by = "idle"
    /\ resp_out = NoResponse
    /\ resp_formats = {}

RespInit ==
    /\ resp_clock \in 0..1
    /\ resp_by = "none"
    /\ resp_out = NoResponse
    /\ resp_formats = {}

\* time passes between two requests
RespTick ==
    /\ resp_by # "idle"
    /\ resp_clock < MaxRespTime
    /\ resp_clock' = resp_clock + 1
    /\ UNCHANGED <<resp_by, resp_out, resp_formats>>
    /\ UNCHANGED respRest

\* a response leaves: it is the last one sent, and its timestamp format
\* joins the formats seen on the wire
Respond(by, response) ==
    /\ resp_by # "idle"
    /\ resp_by' = by
    /\ resp_out' = response
    /\ resp_formats' =
           resp_formats \cup {TimestampOf(response.content).format}
    /\ UNCHANGED resp_clock
    /\ UNCHANGED respRest

\* a wired guard raises a rejection and its __call__ answers it
GuardRejects(r) ==
    Respond(r.guard, HttpExceptionHandler(r, resp_clock))

\* the RateLimitASGIMiddleware of middleware/rate_limiter.py denies
LegacyRateLimitRejects ==
    Respond("rate_limiter.RateLimitASGIMiddleware",
            TooManyRequests(resp_clock))

\* RequestSizeLimitASGIMiddleware refuses the declared Content-Length
LegacySizeLimitRejects ==
    Respond("RequestSizeLimitASGIMiddleware", Reject(resp_clock))

\* an HTTPException is answered by the handler of app.common.handlers
CommonHandlerAnswers(r) ==
    Respond("common.http_exception_handler",
            CommonHttpExceptionHandler(r, resp_clock))

RespNext ==
    \/ RespTick
    \/ \E r \in Rejections : GuardRejects(r)
    \/ LegacyRateLimitRejects
    \/ LegacySizeLimitRejects
    \/ \E r \in Rejections : CommonHandlerAnswers(r)

(***************************************************************************)
(* Lifecycle and the readiness probe.                                      *)
(* handlers/lifecycle_handler.py, controllers/system_controller.py         *)
(***************************************************************************)
\* at most MaxServices services are registered
MaxServices == 2
MaxRepeats == 2

HTTP_200 == 200
HTTP_503 == 503

\* the outcomes of the checks of the registered services, in registration
\* order
ServiceLists ==
    UNION { [1..n -> BOOLEAN] : n \in 0..MaxServices }

\* LifecycleHandler.is_ready
IsReady == _startup_completed /\ ~_shutdown_started

\* LifecycleHandler.are_all_services_healthy: the first service whose check
\* is not healthy ends the loop with False
RECURSIVE AreAllServicesHealthy(_)
AreAllServicesHealthy(services) ==
    IF services = << >> THEN TRUE
    ELSE IF ~Head(services) THEN FALSE
    ELSE AreAllServicesHealthy(Tail(services))

NoProbe ==
    [status |-> 0, startup_completed |-> FALSE, shutdown_started |-> FALSE,
     services |-> << >>]

\* LifecycleHandler.is_alive
IsAlive == ~_shutdown_started

\* mutant: the services are stopped in registration order
StopOrderForward(n) == [p \in 1..n |-> p]

\* shutdown, line 98: reversed(self._services), as positions of the list
StopOrder(n) == [p \in 1..n |-> n + 1 - p]

ReadyIdle ==
    /\ _services = << >>
    /\ _startup_started = FALSE
    /\ _startup_completed = FALSE
    /\ _shutdown_started = FALSE
    /\ lc_starting = -1
    /\ probe = NoProbe
    /\ lc_stopping = -1
    /\ lc_calls = << >>
    /\ lc_repeats = 0

\* LifecycleHandler.__init__ and register
ReadyInit ==
    /\ _services \in ServiceLists
    /\ _startup_started = FALSE
    /\ _startup_completed = FALSE
    /\ _shutdown_started = FALSE
    /\ lc_starting = 0
    /\ probe = NoProbe
    /\ lc_stopping = 0
    /\ lc_calls = << >>
    /\ lc_repeats = 0

\* startup() up to its first await
Startup ==
    /\ lc_starting = 0
    /\ ~_startup_started
    /\ _startup_started' = TRUE
    /\ lc_starting' = 1
    /\ UNCHANGED <<_services, _startup_completed, _shutdown_started, probe,
                   lc_stopping, lc_calls, lc_repeats>>
    /\ UNCHANGED readyRest

\* startup() called when _startup_started is set: it returns at once
StartupAgain ==
    /\ lc_starting > 0
    /\ _startup_started
    /\ lc_repeats < MaxRepeats
    /\ lc_repeats' = lc_repeats + 1
    /\ UNCHANGED <<_services, _startup_started, _startup_completed,
                   _shutdown_started, lc_starting, probe, lc_stopping,
                   lc_calls>>
    /\ UNCHANGED readyRest

\* `await svc.start()` of the next service returns, or raises: the exception
\* ends startup(), left at position Len(_services) + 2
ServiceStarted(raised) ==
    /\ lc_starting \in 1..Len(_services)
    /\ lc_calls' = Append(lc_calls, [op |-> "start", svc |-> lc_starting,
                                     raised |-> raised])
    /\ lc_starting' = IF raised THEN Len(_services) + 2 ELSE lc_starting + 1
    /\ UNCHANGED <<_services, _startup_started, _startup_completed,
                   _shutdown_started, probe, lc_stopping, lc_repeats>>
    /\ UNCHANGED readyRest

\* the loop of startup() is over
StartupCompleted ==
    /\ lc_starting = Len(_services) + 1
    /\ ~_startup_completed
    /\ _startup_completed' = TRUE
    /\ UNCHANGED <<_services, _startup_started, _shutdown_started,
                   lc_starting, probe, lc_stopping, lc_calls, lc_repeats>>
    /\ UNCHANGED readyRest

\* shutdown() up to its first await: the flag is set before the services
\* are stopped
Shutdown ==
    /\ lc_starting >= 0
    /\ ~_shutdown_started
    /\ _shutdown_started' = TRUE
    /\ lc_stopping' = 1
    /\ UNCHANGED <<_services, _startup_started, _startup_completed,
                   lc_starting, probe, lc_calls, lc_repeats>>
    /\ UNCHANGED readyRest

\* shutdown() called when _shutdown_started is set: it returns at once
ShutdownAgain ==
    /\ lc_stopping > 0
    /\ _shutdown_started
    /\ lc_repeats < MaxRepeats
    /\ lc_repeats' = lc_repeats + 1
    /\ UNCHANGED <<_services, _startup_started, _startup_completed,
                   _shutdown_started, lc_starting, probe, lc_stopping,
                   lc_calls>>
    /\ UNCHANGED readyRest

\* `await svc.stop()` of the next service of the reversed list returns, or
\* raises an Exception, which is logged: the loop goes on either way
ServiceStopped(raised) ==
    /\ lc_stopping \in 1..Len(_services)
    /\ lc_calls' = Append(lc_calls,
                          [op |-> "stop",
                           svc |-> StopOrder(Len(_services))[lc_stopping],
                           raised |-> raised])
    /\ lc_stopping' = lc_stopping + 1
    /\ UNCHANGED <<_services, _startup_started, _startup_completed,
                   _shutdown_started, lc_starting, probe, lc_repeats>>
    /\ UNCHANGED readyRest

\* what the check() of service i answers changes
HealthChanges(i) ==
    /\ i \in 1..Len(_services)
    /\ _services' = [_services EXCEPT ![i] = ~_services[i]]
    /\ UNCHANGED <<_startup_started, _startup_completed, _shutdown_started,
                   lc_starting, probe, lc_stopping, lc_calls, lc_repeats>>
    /\ UNCHANGED readyRest

\* ready_probe: `if not app_ready and services_healthy: raise 503`
ReadyStatus(app_ready, services_healthy) ==
    IF (~app_ready) /\ services_healthy THEN HTTP_503 ELSE HTTP_200

\* GET /ready
ReadyProbe ==
    /\ lc_starting >= 0
    /\ probe' = [status |-> ReadyStatus(IsReady,
                                        AreAllServicesHealthy(_services)),
                 startup_completed |-> _startup_completed,
                 shutdown_started  |-> _shutdown_started,
                 services          |-> _services]
    /\ UNCHANGED <<_services, _startup_started, _startup_completed,
                   _shutdown_started, lc_starting, lc_stopping, lc_calls,
                   lc_repeats>>
    /\ UNCHANGED readyRest

ReadyNext ==
    \/ Startup
    \/ StartupAgain
    \/ \E raised \in BOOLEAN : ServiceStarted(raised)
    \/ StartupCompleted
    \/ Shutdown
    \/ ShutdownAgain
    \/ \E raised \in BOOLEAN : ServiceStopped(raised)
    \/ \E i \in 1..MaxServices : HealthChanges(i)
    \/ ReadyProbe

(***************************************************************************)
(* Requests in flight: two requests pass RequestTimeoutASGIMiddleware and  *)
(* RequestBodyLimitASGIMiddleware on one event loop and interleave where   *)
(* timed_receive awaits the transport.  The locals of each call of _run    *)
(* (start_time, received_headers; total, body_chunks) live in a frame.     *)
(***************************************************************************)
MaxFlightTime == 3
MaxFlightCalls == 2
MaxFlightChunk == 2

Requests == {1, 2}

\* __init__ of the two guards: the limits shared by all requests
FlightConfigs ==
    { [max_bytes |-> 1, header_timeout |-> 1, chunk_timeout |-> 2,
       total_timeout |-> 2] }

\* mutant: the locals are kept on the middleware instance, one frame for all
FrameOfShared(r) == 1

\* each call of _run has its own locals, captured by its own closures
FrameOf(r) == r

\* the locals at the start of _run; body_chunks holds the chunks' lengths
NewFrame(now) ==
    [start_time |-> now, received_headers |-> FALSE, total |-> 0,
     body_chunks |-> << >>]

\* timed_receive, lines 64-65
FrameHeaderDeadlinePassed(frame, now) ==
    /\ ~frame.received_headers
    /\ now - frame.start_time > flight_cfg.header_timeout

\* timed_receive, lines 74-76
FrameWaitDeadline(frame) ==
    IF frame.received_headers THEN flight_cfg.chunk_timeout
    ELSE flight_cfg.header_timeout

\* a message of the given type with n body bytes comes back from the
\* transport: timed_receive lines 85-94, then limited_receive lines 123-141
OnMessage(frame, now, type, n) ==
    IF type # "http.request"
    THEN [frame |-> frame, outcome |-> "forwarded"]
    ELSE LET f1 == [frame EXCEPT !.received_headers = TRUE]
             f2 == [f1 EXCEPT !.total = @ + n]
         IN  IF now - f1.start_time > flight_cfg.total_timeout
             THEN [frame |-> f1, outcome |-> "total"]
             ELSE IF n = 0
             THEN [frame |-> f1, outcome |-> "forwarded"]
             ELSE IF f2.total > flight_cfg.max_bytes
             THEN [frame |-> f2, outcome |-> "too_large"]
             ELSE [frame |-> [f2 EXCEPT !.body_chunks = Append(@, n)],
                   outcome |-> "forwarded"]

NoFlight ==
    [pc |-> "idle", entered |-> 0, now |-> 0, deadline |-> 0, log |-> << >>]

FlightIdle ==
    /\ flight_cfg = [max_bytes |-> 0]
    /\ flight_clock = 0
    /\ frames = [r \in Requests |-> NewFrame(0)]
    /\ flight = [r \in Requests |-> NoFlight]

FlightInit ==
    /\ flight_cfg \in FlightConfigs
    /\ flight_clock = 0
    /\ frames = [r \in Requests |-> NewFrame(0)]
    /\ flight = [r \in Requests |-> [NoFlight EXCEPT !.pc = "new"]]

\* a call of the wrapped receive ends: it is logged with its outcome, and
\* an HTTPException ends the request with a rejection
Logged(r, entry) ==
    [flight EXCEPT ![r].log = Append(@, entry),
                   ![r].pc = IF entry.outcome = "forwarded" THEN "app"
                             ELSE "rejected"]

\* request r enters the two guards: both _run create their locals
Enter(r) ==
    /\ flight[r].pc = "new"
    /\ frames' = [frames EXCEPT ![FrameOf(r)] = NewFrame(flight_clock)]
    /\ flight' = [flight EXCEPT ![r].pc = "app",
                                ![r].entered = flight_clock]
    /\ UNCHANGED <<flight_cfg, flight_clock>>
    /\ UNCHANGED flightRest

\* the loop's clock advances; a wait_for whose deadline is reached is
\* resumed before the clock moves on
FlightTick ==
    /\ flight_clock < MaxFlightTime
    /\ \E r \in Requests : flight[r].pc \in {"app", "awaiting"}
    /\ \A r \in Requests :
         flight[r].pc = "awaiting" => flight[r].deadline > flight_clock
    /\ flight_clock' = flight_clock + 1
    /\ UNCHANGED <<flight_cfg, frames, flight>>
    /\ UNCHANGED flightRest

\* the downstream of request r calls limited_receive, which calls
\* timed_receive: up to the await of asyncio.wait_for
CallReceive(r) ==
    /\ flight[r].pc = "app"
    /\ Len(flight[r].log) < MaxFlightCalls
    /\ LET frame == frames[FrameOf(r)]
           now   == flight_clock
       IN  IF FrameHeaderDeadlinePassed(frame, now)
           THEN flight' = Logged(r, [now |-> now, at |-> now, type |-> "none",
                                     n |-> 0, outcome |-> "header"])
           ELSE flight' = [flight EXCEPT
                             ![r].pc = "awaiting",
                             ![r].now = now,
                             ![r].deadline = now + FrameWaitDeadline(frame)]
    /\ UNCHANGED <<flight_cfg, flight_clock, frames>>
    /\ UNCHANGED flightRest

\* the transport's message for request r arrives: timed_receive and
\* limited_receive run on to their return or raise
Deliver(r, type, n) ==
    /\ flight[r].pc = "awaiting"
    /\ type = "http.disconnect" => n = 0
    /\ LET res == OnMessage(frames[FrameOf(r)], flight[r].now, type, n)
       IN  /\ frames' = [frames EXCEPT ![FrameOf(r)] = res.frame]
           /\ flight' = Logged(r, [now |-> flight[r].now, at |-> flight_clock,
                                   type |-> type, n |-> n,
                                   outcome |-> res.outcome])
    /\ UNCHANGED <<flight_cfg, flight_clock>>
    /\ UNCHANGED flightRest

\* the deadline of asyncio.wait_for is reached: TimeoutError, 408 chunk
WaitTimesOut(r) ==
    /\ flight[r].pc = "awaiting"
    /\ flight[r].deadline = flight_clock
    /\ flight' = Logged(r, [now |-> flight[r].now, at |-> flight_clock,
                            type |-> "none", n |-> 0, outcome |-> "chunk"])
    /\ UNCHANGED <<flight_cfg, flight_clock, frames>>
    /\ UNCHANGED flightRest

\* the application of request r returns
FlightAppReturn(r) ==
    /\ flight[r].pc = "app"
    /\ flight[r].log # << >>
    /\ flight' = [flight EXCEPT ![r].pc = "done"]
    /\ UNCHANGED <<flight_cfg, flight_clock, frames>>
    /\ UNCHANGED flightRest

FlightNext ==
    \/ \E r \in Requests : Enter(r)
    \/ FlightTick
    \/ \E r \in Requests : CallReceive(r)
    \/ \E r \in Requests :
         \E type \in {"http.request", "http.disconnect"} :
           \E n \in 0..MaxFlightChunk : Deliver(r, type, n)
    \/ \E r \in Requests : WaitTimesOut(r)
    \/ \E r \in Requests : FlightAppReturn(r)

(***************************************************************************)
(* A rejection on its way out: the HTTPException a guard raises unwinds    *)
(* from where it was raised through the __call__ of the layers around it.  *)
(* A rejection raised in _run before self.app is called starts in the      *)
(* guard's own __call__; one raised inside timed_receive or                *)
(* limited_receive starts in the application, which was reading the body.  *)
(***************************************************************************)
\* where each rejection is raised: "before" the call of self.app, or in the
\* wrapped receive while the downstream reads the "stream"
PhaseOf(r) ==
    IF r.guard = "RequestTimeout" THEN "stream"
    ELSE IF r.guard = "RequestBodyLimit" /\ r.detail = "size" THEN "stream"
    ELSE "before"

\* the position of a middleware class in the stack, 1 the outermost
IndexOf(name) == CHOOSE i \in 1..Len(Pipeline) : Pipeline[i] = name

\* the application sits below the innermost middleware
APPLICATION == Len(Pipeline) + 1

UnwindIdle ==
    /\ uw_cfg = [rej |-> "none"]
    /\ uw_at = -1
    /\ uw_pc = "idle"
    /\ uw_exc = NoExc
    /\ uw_sent = << >>

\* one request: the rejection it will meet, whether the application
\* answers HTTPException itself (the handlers create_app registers) and
\* whether it has already started its response when it reads the body
UnwindInit ==
    /\ \E r \in Rejections :
         \E handles, started \in BOOLEAN :
           /\ started => PhaseOf(r) = "stream"
           /\ uw_cfg = [rej |-> r, app_handles |-> handles,
                        started |-> started]
           /\ uw_sent = IF started
                        THEN << [status |-> HTTP_200, by |-> "application"] >>
                        ELSE << >>
    /\ uw_at = -1
    /\ uw_pc = "new"
    /\ uw_exc = NoExc

\* raise HTTPException(...) in the guard's _run or in its receive wrapper
RaiseRejection ==
    /\ uw_pc = "new"
    /\ uw_pc' = "raised"
    /\ uw_exc' = [cls    |-> "fastapi.HTTPException",
                  status |-> uw_cfg.rej.status,
                  detail |-> uw_cfg.rej.detail]
    /\ uw_at' = IF PhaseOf(uw_cfg.rej) = "stream" THEN APPLICATION
                ELSE IndexOf(uw_cfg.rej.guard)
    /\ UNCHANGED <<uw_cfg, uw_sent>>
    /\ UNCHANGED unwindRest

\* the exception reaches the application: it propagates, or the
\* application's handler answers it, unless the response has started, in
\* which case a RuntimeError goes on instead
ApplicationUnwinds ==
    /\ uw_pc = "raised"
    /\ uw_at = APPLICATION
    /\ IF ~uw_cfg.app_handles
       THEN /\ uw_at' = uw_at - 1
            /\ UNCHANGED <<uw_pc, uw_exc, uw_sent>>
       ELSE IF uw_cfg.started
       THEN /\ uw_at' = uw_at - 1
            /\ uw_exc' = [cls |-> "RuntimeError", status |-> 0,
                          detail |-> "text"]
            /\ UNCHANGED <<uw_pc, uw_sent>>
       ELSE /\ uw_sent' = Append(uw_sent, [status |-> uw_exc.status,
                                           by |-> "application"])
            /\ uw_pc' = "answered"
            /\ UNCHANGED <<uw_at, uw_exc>>
    /\ UNCHANGED uw_cfg
    /\ UNCHANGED unwindRest

\* the exception reaches the __call__ of the layer at uw_at: its except
\* clause sends the response of http_exception_handler, or the exception
\* goes on to the layer around it
LayerUnwinds ==
    /\ uw_pc = "raised"
    /\ uw_at \in 1..Len(Pipeline)
    /\ IF Catches(Pipeline[uw_at], uw_exc)
       THEN /\ uw_sent' = Append(uw_sent, [status |-> uw_exc.status,
                                           by |-> Pipeline[uw_at]])
            /\ uw_pc' = "answered"
            /\ UNCHANGED uw_at
       ELSE /\ uw_at' = uw_at - 1
            /\ UNCHANGED <<uw_pc, uw_sent>>
    /\ UNCHANGED <<uw_cfg, uw_exc>>
    /\ UNCHANGED unwindRest

\* the exception leaves the outermost layer
Escapes ==
    /\ uw_pc = "raised"
    /\ uw_at = 0
    /\ uw_pc' = "escaped"
    /\ UNCHANGED <<uw_cfg, uw_at, uw_exc, uw_sent>>
    /\ UNCHANGED unwindRest

UnwindNext ==
    \/ RaiseRejection
    \/ ApplicationUnwinds
    \/ LayerUnwinds
    \/ Escapes

(***************************************************************************)
(* Header sanitization guard on its own: HeaderSanitizationASGIMiddleware, *)
(* one request.  Names and values are sequences of bytes; "0xE9" is a byte *)
(* that starts no UTF-8 sequence on its own.                               *)
(***************************************************************************)
MaxSanHeaders == 3

SanHeaders ==
    { [name |-> <<"a">>,      value |-> <<"x">>],
      [name |-> <<"A">>,      value |-> <<"x", "x">>],
      [name |-> <<"b">>,      value |-> <<"x">>],
      [name |-> <<"T", "e">>, value |-> <<"x">>],
      [name |-> <<"b", "_">>, value |-> <<"x">>],
      [name |-> <<"c", "l">>, value |-> <<"1", "\n">>],
      [name |-> <<"c", "l">>, value |-> <<"1">>],
      [name |-> <<"c", "t">>, value |-> <<"\r", "j">>],
      [name |-> <<"c", "t">>, value |-> <<"0xE9">>] }

SanHeaderLists ==
    UNION { [1..n -> SanHeaders] : n \in 0..MaxSanHeaders }

SanIdle ==
    /\ san_cfg = [scope_type |-> "none"]
    /\ san_pc = "idle"
    /\ san_scope = << >>
    /\ san_app = << >>
    /\ san_sent = << >>

SanInit ==
    /\ san_cfg \in [scope_type : {"http", "websocket"},
                    headers    : SanHeaderLists]
    /\ san_pc = "new"
    /\ san_scope = san_cfg.headers
    /\ san_app = << >>
    /\ san_sent = << >>

\* __call__ with _run: a non-http scope goes straight to the next layer; an
\* HTTPException is answered with http_exception_handler, any other
\* exception leaves __call__
SanitizationCall ==
    /\ san_pc = "new"
    /\ IF san_cfg.scope_type # "http"
       THEN /\ san_app' = Append(san_app,
                              [headers |-> san_scope, receive |-> "receive"])
            /\ san_pc' = "bypass"
            /\ UNCHANGED <<san_scope, san_sent>>
       ELSE LET result == Sanitize(san_scope, 1, {}, << >>)
            IN  IF result.raised /\ result.detail = "undecodable"
                THEN /\ san_pc' = "raised"
                     /\ UNCHANGED <<san_scope, san_app, san_sent>>
                ELSE IF result.raised
                THEN /\ san_sent' = Append(san_sent,
                            [status |-> 400, detail |-> result.detail])
                     /\ san_pc' = "rejected"
                     /\ UNCHANGED <<san_scope, san_app>>
                ELSE /\ san_scope' = result.headers
                     /\ san_app' = Append(san_app,
                            [headers |-> result.headers,
                             receive |-> "receive"])
                     /\ san_pc' = "forwarded"
                     /\ UNCHANGED san_sent
    /\ UNCHANGED <<san_cfg, sanRest>>

SanNext == SanitizationCall

(***************************************************************************)
(* RateLimiter with the record of its admissions: every call of allow is   *)
(* followed as in Allow, and the calls that returned True are counted per  *)
(* client and per reading of the clock in _refill.                         *)
(***************************************************************************)
AdmitIdle == admissions = << >>

\* configurations whose windows, periods and idle cutoff all fit in MaxTime
AdmitConfigs ==
    { [max_burst |-> 1, burst_window |-> 2, max_sustained |-> 2,
       sustained_period |-> 1, gc_interval |-> 1],
      [max_burst |-> 2, burst_window |-> 3, max_sustained |-> 1,
       sustained_period |-> 2, gc_interval |-> 2] }

AdmitInit ==
    /\ cfg \in AdmitConfigs
    /\ clients = <<>>
    /\ last_gc = 0
    /\ clock = 0
    /\ call = NoCall
    /\ run = [c \in Clients |-> NoRun]
    /\ evicted = {}
    /\ admissions = [c \in Clients |-> [t \in 0..MaxTime |-> 0]]

\* allow(ip) as in Allow; the call is admitted at the time _refill read
LoggedAllow ==
    \E ip \in Clients :
      \E t0 \in clock..MaxTime :
        \E t_refill \in t0..Min(t0 + (IF ip \in DOMAIN clients THEN 0 ELSE MaxDrift),
                                MaxTime) :
          \E t_gc \in t_refill..Min(t_refill + MaxDrift, MaxTime) :
            /\ AllowAt(ip, t0, t_refill, t_gc)
            /\ admissions' = IF call'.allowed
                             THEN [admissions EXCEPT ![ip][t_refill] = @ + 1]
                             ELSE admissions
            /\ UNCHANGED <<guardVars, indepVars>>

AdmitNext == LoggedAllow

(***************************************************************************)
(* Specifications                                                          *)
(***************************************************************************)
RateIdle ==
    /\ cfg = [max_burst |-> 0]
    /\ clients = << >>
    /\ last_gc = 0
    /\ clock = 0
    /\ call = NoCall
    /\ run = << >>
    /\ evicted = {}

InitRate ==
    RateInit /\ BodyIdle /\ HeaderIdle /\ PipeIdle /\ TimeoutIdle /\ GuardIdle
    /\ IndepIdle
    /\ ExceptIdle
    /\ RespIdle
    /\ ReadyIdle
    /\ FlightIdle
    /\ UnwindIdle
    /\ SanIdle
    /\ AdmitIdle

SpecRate == InitRate /\ [][RateNext]_vars

InitBody ==
    BodyInit /\ RateIdle /\ HeaderIdle /\ PipeIdle /\ TimeoutIdle /\ GuardIdle
    /\ IndepIdle
    /\ ExceptIdle
    /\ RespIdle
    /\ ReadyIdle
    /\ FlightIdle
    /\ UnwindIdle
    /\ SanIdle
    /\ AdmitIdle

SpecBody == InitBody /\ [][BodyNext]_vars

InitHeader ==
    HeaderInit /\ RateIdle /\ BodyIdle /\ PipeIdle /\ TimeoutIdle /\ GuardIdle
    /\ IndepIdle
    /\ ExceptIdle
    /\ RespIdle
    /\ ReadyIdle
    /\ FlightIdle
    /\ UnwindIdle
    /\ SanIdle
    /\ AdmitIdle

SpecHeader == InitHeader /\ [][HeaderNext]_vars

InitPipe ==
    PipeInit /\ RateIdle /\ BodyIdle /\ PipeHeaderCfg /\ TimeoutIdle /\ GuardIdle
    /\ IndepIdle
    /\ ExceptIdle
    /\ RespIdle
    /\ ReadyIdle
    /\ FlightIdle
    /\ UnwindIdle
    /\ SanIdle
    /\ AdmitIdle

SpecPipe == InitPipe /\ [][PipeNext]_vars

InitTimeout ==
    TimeoutInit /\ RateIdle /\ BodyIdle /\ HeaderIdle /\ PipeIdle /\ GuardIdle
    /\ IndepIdle
    /\ ExceptIdle
    /\ RespIdle
    /\ ReadyIdle
    /\ FlightIdle
    /\ UnwindIdle
    /\ SanIdle
    /\ AdmitIdle

SpecTimeout == InitTimeout /\ [][TimeoutNext]_vars

InitRateGuard ==
    RateGuardInit /\ BodyIdle /\ HeaderIdle /\ PipeIdle /\ TimeoutIdle
    /\ IndepIdle
    /\ ExceptIdle
    /\ RespIdle
    /\ ReadyIdle
    /\ FlightIdle
    /\ UnwindIdle
    /\ SanIdle
    /\ AdmitIdle

SpecRateGuard == InitRateGuard /\ [][RateGuardNext]_vars

InitIndep ==
    IndepInit /\ BodyIdle /\ HeaderIdle /\ PipeIdle /\ TimeoutIdle /\ GuardIdle
    /\ ExceptIdle
    /\ RespIdle
    /\ ReadyIdle
    /\ FlightIdle
    /\ UnwindIdle
    /\ SanIdle
    /\ AdmitIdle

SpecIndep == InitIndep /\ [][IndepNext]_vars

InitExcept ==
    /\ ExceptInit
    /\ RateIdle
    /\ BodyIdle
    /\ HeaderIdle
    /\ PipeIdle
    /\ TimeoutIdle
    /\ GuardIdle
    /\ IndepIdle
    /\ RespIdle
    /\ ReadyIdle
    /\ FlightIdle
    /\ UnwindIdle
    /\ SanIdle
    /\ AdmitIdle

SpecExcept == InitExcept /\ [][ExceptNext]_vars

InitResp ==
    /\ RespInit
    /\ RateIdle
    /\ BodyIdle
    /\ HeaderIdle
    /\ PipeIdle
    /\ TimeoutIdle
    /\ GuardIdle
    /\ ExceptIdle
    /\ IndepIdle
    /\ ReadyIdle
    /\ FlightIdle
    /\ UnwindIdle
    /\ SanIdle
    /\ AdmitIdle

SpecResp == InitResp /\ [][RespNext]_vars

InitReady ==
    /\ ReadyInit
    /\ RateIdle
    /\ BodyIdle
    /\ HeaderIdle
    /\ PipeIdle
    /\ TimeoutIdle
    /\ GuardIdle
    /\ ExceptIdle
    /\ RespIdle
    /\ IndepIdle
    /\ FlightIdle
    /\ UnwindIdle
    /\ SanIdle
    /\ AdmitIdle

SpecReady == InitReady /\ [][ReadyNext]_vars

InitFlight ==
    /\ FlightInit
    /\ RateIdle
    /\ BodyIdle
    /\ HeaderIdle
    /\ PipeIdle
    /\ TimeoutIdle
    /\ GuardIdle
    /\ ExceptIdle
    /\ RespIdle
    /\ ReadyIdle
    /\ IndepIdle
    /\ UnwindIdle
    /\ SanIdle
    /\ AdmitIdle

SpecFlight == InitFlight /\ [][FlightNext]_vars

InitUnwind ==
    /\ UnwindInit
    /\ RateIdle
    /\ BodyIdle
    /\ HeaderIdle
    /\ PipeIdle
    /\ TimeoutIdle
    /\ GuardIdle
    /\ ExceptIdle
    /\ RespIdle
    /\ ReadyIdle
    /\ FlightIdle
    /\ IndepIdle
    /\ SanIdle
    /\ AdmitIdle

SpecUnwind == InitUnwind /\ [][UnwindNext]_vars

InitSanitize ==
    /\ SanInit
    /\ RateIdle
    /\ BodyIdle
    /\ HeaderIdle
    /\ PipeIdle
    /\ TimeoutIdle
    /\ GuardIdle
    /\ ExceptIdle
    /\ RespIdle
    /\ ReadyIdle
    /\ FlightIdle
    /\ UnwindIdle
    /\ IndepIdle
    /\ AdmitIdle

SpecSanitize == InitSanitize /\ [][SanNext]_vars

InitAdmit ==
    /\ AdmitInit
    /\ BodyIdle
    /\ HeaderIdle
    /\ PipeIdle
    /\ TimeoutIdle
    /\ GuardIdle
    /\ ExceptIdle
    /\ RespIdle
    /\ ReadyIdle
    /\ FlightIdle
    /\ UnwindIdle
    /\ SanIdle
    /\ IndepIdle

SpecAdmit == InitAdmit /\ [][AdmitNext]_vars

(***************************************************************************)
(* Claims about RateLimiter, checked under SpecRate                        *)
(***************************************************************************)
Called == call.ip # "none"

\* the bucket the call left in the map, if the call's ip is still a key
Stored == clients[call.ip]

\* C3: allow(client) returns allowed iff, after the refill and the burst reset
\* of this call, burst_tokens >= 1 and sustained_tokens >= 1; an allowed call
\* takes exactly one token from each bucket, a denied call takes none.
C3_AdmissionDecision ==
    Called =>
        /\ call.allowed <=> (call.decided.burst_tokens >= 1
                             /\ call.decided.sustained_tokens >= Tok(1))
        /\ call.allowed =>
              /\ call.after.burst_tokens = call.decided.burst_tokens - 1
              /\ call.after.sustained_tokens
                    = call.decided.sustained_tokens - Tok(1)
        /\ ~call.allowed =>
              /\ call.after.burst_tokens = call.decided.burst_tokens
              /\ call.after.sustained_tokens = call.decided.sustained_tokens
        /\ call.ip \in DOMAIN clients
        /\ Stored = call.after

\* C3 witness: a call denied for lack of a sustained token while a burst token
\* was available
C3_Witness ==
    /\ Called
    /\ ~call.allowed
    /\ call.decided.burst_tokens >= 1
    /\ call.decided.sustained_tokens < Tok(1)
    /\ Stored.burst_tokens = call.decided.burst_tokens

\* C4: every bucket of the client map has 0 <= burst_tokens <= max_burst and
\* 0 <= sustained_tokens <= max_sustained.
C4_TokenBounds ==
    \A c \in DOMAIN clients :
        /\ 0 <= clients[c].burst_tokens
        /\ clients[c].burst_tokens <= cfg.max_burst
        /\ 0 <= clients[c].sustained_tokens
        /\ clients[c].sustained_tokens <= Tok(cfg.max_sustained)

\* C4 witness: a refill that would have passed max_sustained was clamped, on a
\* bucket that then gave its last burst token
C4_Witness ==
    /\ Called
    /\ call.before.sustained_tokens < Tok(cfg.max_sustained)
    /\ call.before.sustained_tokens
          + (call.now - call.before.last_refill) * cfg.max_sustained
          > Tok(cfg.max_sustained)
    /\ call.decided.sustained_tokens = Tok(cfg.max_sustained)
    /\ call.ip \in DOMAIN clients
    /\ Stored.burst_tokens = 0

\* C5: among the calls of one client made with no time elapsing, at most
\* min(max_burst, max_sustained) succeed, and after a denial every further
\* call at that instant is denied.
C5_BurstCap ==
    /\ \A c \in Clients : run[c].ok <= Min(cfg.max_burst, cfg.max_sustained)
    /\ Called /\ call.denied_before => ~call.allowed

\* C5 witness: min(max_burst, max_sustained) calls succeeded at one instant,
\* then two were denied at that instant
C5_Witness ==
    /\ Called
    /\ call.denied_before
    /\ ~call.allowed
    /\ run[call.ip].ok = Min(cfg.max_burst, cfg.max_sustained)

\* C6: burst replenishment is a step function: a call made when
\* now - last_burst_reset >= burst_window decides on burst_tokens = max_burst
\* with last_burst_reset = now, a call made earlier leaves both untouched;
\* so once burst_window has elapsed a call holding a sustained token is allowed.
C6_BurstStep ==
    Called =>
        /\ (call.now - call.before.last_burst_reset >= cfg.burst_window) =>
              /\ call.decided.burst_tokens = cfg.max_burst
              /\ call.decided.last_burst_reset = call.now
              /\ call.decided.sustained_tokens >= Tok(1) => call.allowed
        /\ (call.now - call.before.last_burst_reset < cfg.burst_window) =>
              /\ call.decided.burst_tokens = call.before.burst_tokens
              /\ call.decided.last_burst_reset = call.before.last_burst_reset

\* C6 witness: a client out of burst tokens calls exactly burst_window after
\* its last reset and is allowed
C6_Witness ==
    /\ Called
    /\ call.before.burst_tokens = 0
    /\ call.now - call.before.last_burst_reset = cfg.burst_window
    /\ call.allowed
    /\ Stored.burst_tokens = cfg.max_burst - 1

\* C7: each call adds (now - last_refill) * max_sustained / sustained_period to
\* sustained_tokens, clamped to max_sustained, and sets last_refill to now; a
\* client that made no call for sustained_period or more decides on
\* sustained_tokens = max_sustained, whatever its burst tokens.
C7_SustainedRefill ==
    Called =>
        /\ call.decided.sustained_tokens =
              Min(Tok(cfg.max_sustained),
                  call.before.sustained_tokens
                    + (call.now - call.before.last_refill) * cfg.max_sustained)
        /\ call.decided.last_refill = call.now
        /\ (call.now - call.before.last_seen >= cfg.sustained_period) =>
              call.decided.sustained_tokens = Tok(cfg.max_sustained)

\* C7 witness: a client with no sustained token and no burst token left calls
\* sustained_period later, is refilled to max_sustained and still denied
C7_Witness ==
    /\ Called
    /\ call.before.sustained_tokens < Tok(1)
    /\ call.now - call.before.last_seen >= cfg.sustained_period
    /\ call.decided.sustained_tokens = Tok(cfg.max_sustained)

\* the time since client c was last seen, at the GC pass of the call that this
\* step makes
IdleAtPass(c) ==
    IF c = call'.ip
    THEN call'.t_gc - call'.decided.last_seen
    ELSE call'.t_gc - clients[c].last_seen

Guarded == body_cfg.scope_type = "http" /\ body_pc # "new"

LastSent == sent[Len(sent)]

C2_PreCheck ==
    Guarded =>
        LET declared == body_cfg.content_length
        IN  /\ (declared.kind = "int" /\ declared.value > max_bytes) =>
                  /\ body_pc = "rejected"
                  /\ sent = << Rejection(413, "exceeds") >>
                  /\ stream = << >>
                  /\ app_calls = 0
            /\ (declared.kind = "int" /\ declared.value = max_bytes) =>
                  app_calls = 1
            /\ (declared.kind = "absent"
                  \/ (declared.kind = "int" /\ declared.value = 0)) =>
                  /\ app_calls = 1
                  /\ (Len(stream) = 1 /\ stream[1].type = "http.request"
                        /\ stream[1].chunk = << >> /\ ~stream[1].more_body) =>
                        /\ stream[1].forwarded
                        /\ body_pc # "rejected"
                        /\ \A k \in 1..Len(sent) : sent[k].status # 413

\* C2 witness: a request declaring max_body_bytes + 1 has been rejected with
\* nothing read
C2_Witness ==
    /\ Guarded
    /\ body_cfg.content_length.kind = "int"
    /\ body_cfg.content_length.value = max_bytes + 1
    /\ body_pc = "rejected"
    /\ stream = << >>

(***************************************************************************)
(* Claims about the header-limit guard, checked under SpecHeader           *)
(***************************************************************************)
HeaderDone == hdr_cfg.scope_type = "http" /\ hdr_pc # "new"

RECURSIVE SumSizes(_)
SumSizes(hs) ==
    IF hs = << >> THEN 0
    ELSE Len(Head(hs).name) + Len(Head(hs).value) + SumSizes(Tail(hs))

\* C9: a request with exactly max_header_count headers is not rejected by the
\* count check; one with max_header_count + 1 headers is rejected with 431
\* and the next layer is not invoked.
C9_CountBoundary ==
    HeaderDone =>
        /\ Len(hdr_cfg.headers) = hdr_cfg.max_header_count =>
              \A k \in 1..Len(hdr_sent) : hdr_sent[k].detail # "too_many"
        /\ Len(hdr_cfg.headers) = hdr_cfg.max_header_count + 1 =>
              /\ hdr_pc = "rejected"
              /\ hdr_sent = << [status |-> 431, detail |-> "too_many"] >>
              /\ hdr_app = << >>

\* C9 witness: a request of max_header_count + 1 small headers was rejected
C9_Witness ==
    /\ HeaderDone
    /\ Len(hdr_cfg.headers) = hdr_cfg.max_header_count + 1
    /\ SumSizes(hdr_cfg.headers) <= hdr_cfg.max_total_header_bytes
    /\ hdr_pc = "rejected"

\* C10: within the count limit, the guard rejects with 431 if some header has
\* len(name) + len(value) > max_single_header_bytes or if the sizes sum to
\* more than max_total_header_bytes; a header of exactly
\* max_single_header_bytes and a total of exactly max_total_header_bytes are
\* not rejected by these checks.
C10_SizeChecks ==
    (HeaderDone /\ Len(hdr_cfg.headers) <= hdr_cfg.max_header_count) =>
        LET hs == hdr_cfg.headers
            oversize == \E i \in 1..Len(hs) :
                           Len(hs[i].name) + Len(hs[i].value)
                              > hdr_cfg.max_single_header_bytes
            overtotal == SumSizes(hs) > hdr_cfg.max_total_header_bytes
        IN  /\ (oversize \/ overtotal) =>
                  /\ hdr_pc = "rejected"
                  /\ Len(hdr_sent) = 1
                  /\ hdr_sent[1].status = 431
                  /\ hdr_sent[1].detail =
                        IF oversize THEN "per_header" ELSE "total"
                  /\ hdr_app = << >>
            /\ ~(oversize \/ overtotal) =>
                  \A k \in 1..Len(hdr_sent) : hdr_sent[k].status # 431

\* C10 witness: a header of exactly max_single_header_bytes in a list of
\* exactly max_total_header_bytes was forwarded
C10_Witness ==
    /\ HeaderDone
    /\ \E i \in 1..Len(hdr_cfg.headers) :
          Len(hdr_cfg.headers[i].name) + Len(hdr_cfg.headers[i].value)
             = hdr_cfg.max_single_header_bytes
    /\ SumSizes(hdr_cfg.headers) = hdr_cfg.max_total_header_bytes
    /\ hdr_pc = "forwarded"
    /\ Len(hdr_app) = 1
    /\ hdr_app[1].headers = hdr_cfg.headers

\* some transfer-encoding header of the raw list names chunked
SomeChunked(hs) ==
    \E i \in 1..Len(hs) :
        /\ Lower(hs[i].name) = TRANSFER_ENCODING
        /\ Contains(Lower(hs[i].value), CHUNKED)

\* C11: if allow_chunked is false and any transfer-encoding header of the raw
\* list (duplicates included, in any position) has a value containing
\* "chunked" in any letter case, the request is rejected and not forwarded;
\* if allow_chunked is true the request is not rejected for that reason.
C11_ChunkedRefused ==
    (HeaderDone /\ SomeChunked(hdr_cfg.headers)) =>
        /\ ~hdr_cfg.allow_chunked =>
              /\ hdr_pc = "rejected"
              /\ hdr_app = << >>
        /\ hdr_cfg.allow_chunked =>
              \A k \in 1..Len(hdr_sent) : hdr_sent[k].status # 501

(***************************************************************************)
(* The composed pipeline                                                   *)
(***************************************************************************)
PipeDone == pipe_pc \in {"answered", "routed"}

InPipe(name) == \E k \in 1..Len(pipe_entered) : pipe_entered[k] = name

\* C12: in the composed pipeline the header-limit guard runs before the
\* body-limit guard: a request carrying one header more than
\* max_header_count is answered with 431 (too many headers) and the
\* body-limit guard is never entered for it, whatever its Content-Length.
C12_HeaderBeforeBody ==
    (PipeDone /\ Len(pipe_req.headers) = PipeLimits.max_header_count + 1) =>
        /\ pipe_sent = << [status |-> HTTP_431, detail |-> "too_many",
                           by |-> "RequestHeaderLimit"] >>
        /\ ~InPipe("RequestBodyLimit")

\* the guards with a check made before the request is handed on
Guards == {"RateLimit", "RequestHeaderLimit", "HeaderSanitization",
           "RequestBodyLimit"}

PositionOf(name) == CHOOSE i \in 1..Len(Pipeline) : Pipeline[i] = name

\* C16: rejections short-circuit: when a guard rejects in its pre-forward
\* check (rate-limit denial, header count, size or chunked violation,
\* sanitization violation, Content-Length pre-check), no guard nested
\* inside it and not the application handler is invoked for that request,
\* and exactly one rejection response is sent.
C16_ShortCircuit ==
    \A k \in 1..Len(pipe_sent) :
        pipe_sent[k].by \in Guards =>
            /\ pipe_sent[k].status >= 400
            /\ Len(pipe_sent) = 1
            /\ ~InPipe("Router")
            /\ \A j \in 1..Len(pipe_entered) :
                   /\ pipe_entered[j] # "Router"
                   /\ PositionOf(pipe_entered[j]) <= PositionOf(pipe_sent[k].by)

\* the header-limit guard, nested inside three other guards, has rejected
C16_Witness ==
    /\ pipe_pc = "answered"
    /\ pipe_sent = << [status |-> HTTP_431, detail |-> "total",
                       by |-> "RequestHeaderLimit"] >>
    /\ InPipe("RequestBodyLimit")
    /\ InPipe("HeaderSanitization")

(***************************************************************************)
(* Timeout guard                                                           *)
(***************************************************************************)
\* the k-th call of timed_receive was made before any body-bearing message
FirstAwait(k) == tmo_calls[k].first

\* the time after start_time at which the k-th call ended
Elapsed(k) == tmo_calls[k].at - start_time

\* C13: header timeout: a request whose first body-bearing message arrives
\* later than header_timeout after start_time is rejected with a 408
\* carrying the header-timeout message (so is one whose first message has
\* not arrived when the guard gives up), and a request whose first
\* body-bearing message arrives before that deadline is forwarded.
C13_HeaderTimeout ==
    \A k \in 1..Len(tmo_calls) :
        FirstAwait(k) =>
            /\ (/\ tmo_calls[k].type = "http.request"
                /\ Elapsed(k) > tmo_cfg.header_timeout)
                   => tmo_calls[k].outcome = "header"
            /\ tmo_calls[k].type = "none"
                   => tmo_calls[k].outcome = "header"
            /\ (/\ tmo_calls[k].type = "http.request"
                /\ Elapsed(k) < tmo_cfg.header_timeout)
                   => tmo_calls[k].outcome = "forwarded"

\* C14: total timeout: a body-bearing message received at a time now with
\* now - start_time > total_timeout is rejected with 408 'total timeout
\* exceeded' and not forwarded, so no body-bearing message is forwarded
\* later than total_timeout after start_time.
C14_TotalTimeout ==
    \A k \in 1..Len(tmo_calls) :
        (/\ tmo_calls[k].type = "http.request"
         /\ Elapsed(k) > tmo_cfg.total_timeout)
            => tmo_calls[k].outcome = "total"

\* C15: every rejection issued by the timeout guard tears the connection
\* down: besides the error response a disconnect is signalled, to the
\* transport or to the downstream reader.
C15_RejectionDisconnects ==
    tmo_pc = "rejected" =>
        \/ \E k \in 1..Len(tmo_sent) : tmo_sent[k].type = "http.disconnect"
        \/ tmo_calls[Len(tmo_calls)].outcome = "disconnect"

Timeouts == {"header", "chunk", "total"}

\* C25: TIMED_OUT is absorbing: once the guard has rejected the request with
\* a header, chunk or total timeout, no later call of the wrapped receive
\* forwards a message; every later call is rejected as well.
C25_TimedOutAbsorbing ==
    \A k \in 1..Len(tmo_calls) :
        (\E j \in 1..(k - 1) : tmo_calls[j].outcome \in Timeouts)
            => tmo_calls[k].outcome \in Timeouts

\* C26: DONE is terminal: after the guard has forwarded the end-of-body
\* message (more_body = false), a later call of the wrapped receive, such as
\* the handler waiting for the client's disconnect, is never rejected with a
\* timeout.
C26_DoneNeverTimesOut ==
    \A k \in 1..Len(tmo_calls) :
        (\E j \in 1..(k - 1) :
            /\ tmo_calls[j].type = "http.request"
            /\ ~tmo_calls[j].more_body
            /\ tmo_calls[j].outcome = "forwarded")
            => tmo_calls[k].outcome \notin Timeouts

\* a body-bearing message was received by a call before the k-th
ReceivedBefore(k) ==
    \E j \in 1..(k - 1) : tmo_calls[j].type = "http.request"

\* C27: while the guard awaits the next message the deadline is
\* chunk_timeout if a body-bearing message has already been received and
\* header_timeout otherwise; when the deadline elapses first the call is
\* rejected with 408 'chunk timeout exceeded' exactly at the deadline and
\* nothing is forwarded; a message that is delivered arrived within the
\* deadline; and only a body-bearing message, never a disconnect, moves the
\* guard from AWAITING_FIRST_CHUNK to RECEIVING_BODY.
C27_ChunkDeadline ==
    /\ \A k \in 1..Len(tmo_calls) :
         LET c == tmo_calls[k]
             deadline == IF ReceivedBefore(k) THEN tmo_cfg.chunk_timeout
                         ELSE tmo_cfg.header_timeout
         IN  /\ c.outcome = "chunk" =>
                    /\ c.type = "none"
                    /\ c.at - c.now = deadline
             /\ c.type # "none" => c.at - c.now <= deadline
             /\ c.first <=> ~ReceivedBefore(k)
    /\ tmo_pc # "idle" =>
           (received_headers <=> ReceivedBefore(Len(tmo_calls) + 1))

C27_Witness ==
    /\ Len(tmo_calls) = 3
    /\ tmo_cfg.chunk_timeout < tmo_cfg.header_timeout
    /\ tmo_calls[1].type = "http.disconnect"
    /\ tmo_calls[2].type = "http.request"
    /\ tmo_calls[2].first
    /\ tmo_calls[2].outcome = "forwarded"
    /\ tmo_calls[3].outcome = "chunk"
    /\ tmo_calls[3].at - tmo_calls[3].now = tmo_cfg.chunk_timeout

\* C28: start_time is recorded once per request, at the first invocation of
\* the wrapped receive and not when the guard is entered, so it is the
\* clock reading of the first call.
C28_StartTimeAtFirstReceive ==
    Len(tmo_calls) >= 1 => start_time = tmo_calls[1].now

(***************************************************************************)
(* Rate-limit guard                                                        *)
(***************************************************************************)
\* C17: the rate-limit guard calls limiter.allow exactly once per HTTP
\* request, keyed by the client's host address, or by the one shared key
\* 'unknown' when the request has no client address; a denial is answered
\* with a 429 rejection and nothing is forwarded, and an allowed request is
\* forwarded to the next layer exactly once.
C17_GuardCallsAllowOnce ==
    rg_req.scope_type = "http" =>
        /\ rg_allow_calls = 1
        /\ rg_req.client.present => call.ip = rg_req.client.host
        /\ ~rg_req.client.present => call.ip = "unknown"
        /\ call.allowed =>
              /\ rg_forwarded = 1
              /\ rg_sent = << >>
        /\ ~call.allowed =>
              /\ rg_forwarded = 0
              /\ Len(rg_sent) = 1
              /\ rg_sent[1].status = HTTP_429

\* a request with an address was denied after requests without one had
\* been counted under the shared key
C17_Witness ==
    /\ rg_req.scope_type = "http"
    /\ rg_req.client.present
    /\ ~call.allowed
    /\ rg_sent # << >>
    /\ "unknown" \in DOMAIN clients

(***************************************************************************)
(* Independence of clients                                                 *)
(***************************************************************************)
\* C18: admission decisions are per client and independent: whatever
\* allow(A) calls are interleaved with B's, every result returned to B is
\* the one B gets at the same times when the allow(A) calls never happen,
\* GC passes triggered by A's calls included.
C18_ClientsIndependent ==
    verdicts.ip = CLIENT_B => verdicts.together = verdicts.without_a

(***************************************************************************)
(* The replay buffer and the informational headers of the body-limit guard *)
(***************************************************************************)
\* the bytes held in body_chunks
BufferBytes == Len(Join(body_chunks))

\* C19: at every point of a request's lifetime the replay buffer of the
\* body-limit guard holds at most max_body_bytes bytes: a chunk is retained
\* only while the cumulative total is within the limit.
C19_ReplayBufferBounded ==
    Guarded =>
        /\ BufferBytes <= max_bytes
        /\ BufferBytes <= total
        /\ \A i \in 1..Len(stream) :
               ~stream[i].forwarded => BufferBytes <= stream[i].upto - 1

\* the buffer is full to the limit, in several chunks, and the chunk that
\* came next was refused and not retained
C19_Witness ==
    /\ Guarded
    /\ Len(body_chunks) >= 2
    /\ BufferBytes = max_bytes
    /\ stream # << >>
    /\ ~stream[Len(stream)].forwarded
    /\ total > max_bytes

\* C20: the informational headers X-Body-Limit-Bytes and
\* X-Body-Remaining-Bytes are attached to every response of a request
\* handled by the body-limit guard, whatever the outcome: on accepted
\* requests and on the guard's own rejections (Content-Length pre-check
\* and mid-stream size rejection).
C20_HeadersOnEveryResponse ==
    Guarded =>
        \A k \in 1..Len(sent) :
            /\ sent[k].annotated
            /\ sent[k].limit = max_bytes

\* C21: a request whose Content-Length header is present but cannot be
\* parsed as an integer is rejected by the body-limit guard with a 400
\* bad-length rejection, distinct from the 413 oversize rejection, without
\* reading any body and without invoking the downstream.
C21_BadLengthIs400 ==
    (Guarded /\ body_cfg.content_length.kind = "invalid") =>
        /\ body_pc = "rejected"
        /\ stream = << >>
        /\ app_calls = 0
        /\ Len(sent) = 1
        /\ sent[1].status = 400

(***************************************************************************)
(* Exceptions of the next layer                                            *)
(***************************************************************************)
ExcSettled == exc_pc \in {"answered", "raised"}

\* the guards treat every HTTPException as a rejection
IsRejection(exc) == IsInstance(exc.cls, "starlette.HTTPException")

\* C22: no guard swallows an unexpected exception of the downstream: an
\* exception raised by the next layer that is not a rejection (not an
\* HTTPException) leaves every layer's __call__ unchanged, the same
\* exception, and the layer synthesizes no response for it.
C22_UnexpectedPropagates ==
    (ExcSettled /\ ~IsRejection(exc_thrown)) =>
        /\ exc_pc = "raised"
        /\ exc_out = exc_thrown
        /\ exc_sent = << >>

\* a RuntimeError of the downstream has left the body-limit guard
C22_Witness ==
    /\ exc_cfg.layer = "RequestBodyLimit"
    /\ exc_thrown.cls = "RuntimeError"
    /\ exc_pc = "raised"
    /\ exc_out = exc_thrown

(***************************************************************************)
(* Claims about the rejection responses, checked under SpecResp            *)
(***************************************************************************)
\* the classes that reject requests themselves
GuardClasses ==
    WiredGuards \cup {"rate_limiter.RateLimitASGIMiddleware",
                      "RequestSizeLimitASGIMiddleware"}

\* C23: every rejection response produced by a guard has a body with the
\* members status (equal to the response's HTTP status code), message and
\* timestamp, and one single timestamp format (ISO-8601 string or epoch
\* milliseconds) is used on every rejection path.
C23_RejectionBody ==
    /\ resp_by \in GuardClasses =>
           /\ {"status", "message", "timestamp"} \subseteq
                  DOMAIN resp_out.content
           /\ resp_out.content.status = resp_out.status_code
    /\ Cardinality(resp_formats) <= 1

(***************************************************************************)
(* Claims about the readiness probe, checked under SpecReady               *)
(***************************************************************************)
Probed == probe.status # 0

\* C24: GET /ready reports ready (200) only when startup has completed,
\* shutdown has not started and the check of every registered service is
\* healthy; in every other case it answers 503.
C24_ReadyOnlyWhenAllReady ==
    Probed =>
        IF /\ probe.startup_completed
           /\ ~probe.shutdown_started
           /\ \A i \in 1..Len(probe.services) : probe.services[i]
        THEN probe.status = HTTP_200
        ELSE probe.status = HTTP_503

(***************************************************************************)
(* Concurrent calls of allow, checked under SpecRate                       *)
(***************************************************************************)
\* floor(min(b, s)) of the bucket a run of same-instant calls started with
Admissible(r) ==
    Min(r.start.burst_tokens,
        r.start.sustained_tokens \div cfg.sustained_period)

\* C29: allow() runs without suspending, so the calls of concurrent requests
\* are serialized whole: when k requests of one client are served at the
\* same instant from a bucket holding b burst and s sustained tokens,
\* exactly min(k, floor(min(b, s))) of them are admitted, and the bucket
\* afterwards holds exactly one token of each kind less per admitted
\* request: no token is spent twice or lost.
C29_SameInstantAdmissions ==
    \A c \in DOMAIN run :
        LET r == run[c]
        IN  r.at # -1 =>
                /\ r.ok = Min(r.n, Admissible(r))
                /\ r.at = clock =>
                       /\ c \in DOMAIN clients
                       /\ clients[c].burst_tokens =
                              r.start.burst_tokens - r.ok
                       /\ clients[c].sustained_tokens =
                              r.start.sustained_tokens - Tok(r.ok)

C29_Witness ==
    \E c \in DOMAIN run :
        /\ run[c].at = clock
        /\ run[c].n = MaxRun
        /\ run[c].ok = 2
        /\ Admissible(run[c]) = 2
        /\ run[c].denied

(***************************************************************************)
(* Requests in flight, checked under SpecFlight                            *)
(***************************************************************************)
\* what the calls logged for one request come to when that request is the
\* only one: each call's outcome and times are checked against the frame
\* the calls before it left, starting from the request's own new frame
RECURSIVE Replay(_, _)
Replay(log, frame) ==
    IF log = << >> THEN [ok |-> TRUE, frame |-> frame]
    ELSE LET e == Head(log)
         IN  IF FrameHeaderDeadlinePassed(frame, e.now)
             THEN IF e.outcome = "header" /\ e.type = "none"
                  THEN Replay(Tail(log), frame)
                  ELSE [ok |-> FALSE, frame |-> frame]
             ELSE IF e.type = "none"
             THEN IF /\ e.outcome = "chunk"
                     /\ e.at = e.now + FrameWaitDeadline(frame)
                  THEN Replay(Tail(log), frame)
                  ELSE [ok |-> FALSE, frame |-> frame]
             ELSE LET res == OnMessage(frame, e.now, e.type, e.n)
                  IN  IF /\ e.outcome = res.outcome
                         /\ e.at <= e.now + FrameWaitDeadline(frame)
                      THEN Replay(Tail(log), res.frame)
                      ELSE [ok |-> FALSE, frame |-> frame]

\* C30: a timeout or size-limit rejection of one request affects that
\* request only: with two requests interleaved at their awaits, the byte
\* counter, the replay buffer, start_time and the received flag of a request
\* are exactly what its own messages made them, the deadline of its pending
\* await comes from its own flag, and every message it was forwarded or
\* rejection it was given is the one it would have had alone, whatever was
\* done to the other request.
C30_RequestsIsolated ==
    \A r \in Requests :
        flight[r].pc \in {"app", "awaiting", "rejected", "done"} =>
            LET res == Replay(flight[r].log, NewFrame(flight[r].entered))
            IN  /\ res.ok
                /\ frames[FrameOf(r)] = res.frame
                /\ flight[r].pc = "awaiting" =>
                       flight[r].deadline =
                           flight[r].now + FrameWaitDeadline(res.frame)

C30_Witness ==
    \E r, q \in Requests :
        /\ r # q
        /\ flight[r].pc = "rejected"
        /\ flight[r].log[Len(flight[r].log)].outcome = "too_large"
        /\ Len(flight[q].log) = 2
        /\ flight[q].log[1].outcome = "forwarded"
        /\ flight[q].log[1].type = "http.request"
        /\ flight[q].log[1].n = 1
        /\ flight[q].log[1].at <= flight[r].log[Len(flight[r].log)].now
        /\ flight[q].log[2].now <= flight[r].log[Len(flight[r].log)].now
        /\ flight[q].log[2].at > flight[r].log[Len(flight[r].log)].at
        /\ flight[q].log[2].outcome = "forwarded"

(***************************************************************************)
(* Rejections on their way out, checked under SpecUnwind                   *)
(***************************************************************************)
\* C31: every guard converts its own failure into a rejection response at
\* its own layer: a rejection raised by a guard, also one raised while the
\* downstream reads the body stream, is answered by that guard's own
\* __call__ and not by another guard or by the application, and no
\* rejection leaves the outermost layer of the stack.
C31_OwnLayerRejects ==
    /\ uw_pc = "answered" =>
           uw_sent[Len(uw_sent)].by = uw_cfg.rej.guard
    /\ uw_pc = "escaped" => ~IsRejection(uw_exc)

RECURSIVE ForwardedBytes(_, _)
ForwardedBytes(from, to) ==
    IF from > to THEN << >>
    ELSE (IF stream[from].type = "http.request" /\ stream[from].forwarded
          THEN stream[from].chunk ELSE << >>)
         \o ForwardedBytes(from + 1, to)

\* the number of messages delivered before the replay preceding the k-th
ReplayedUpTo(k) == IF k = 1 THEN 0 ELSE replayed[k - 1].after

\* C32: replay_body returns, as one end-of-body message, the concatenation
\* in arrival order of the non-empty chunks forwarded so far and not yet
\* replayed, and empties the buffer: after a complete body within the limit
\* the first replay is the full body, a replay repeated at once is an empty
\* body, and the buffer holds exactly what was forwarded since the last
\* replay.
C32_ReplayIsBufferedBody ==
    /\ \A k \in 1..Len(replayed) :
         /\ replayed[k].message =
                [type |-> "http.request",
                 body |-> ForwardedBytes(ReplayedUpTo(k) + 1, replayed[k].after),
                 more_body |-> FALSE]
         /\ (/\ k = 1
             /\ replayed[k].after >= 1
             /\ stream[replayed[k].after].type = "http.request"
             /\ stream[replayed[k].after].forwarded
             /\ ~stream[replayed[k].after].more_body)
                => replayed[k].message.body =
                       [b \in 1..stream[replayed[k].after].upto |-> b]
         /\ (k > 1 /\ replayed[k].after = replayed[k - 1].after)
                => replayed[k].message.body = << >>
    /\ replayed # << >> =>
           Join(body_chunks) =
               ForwardedBytes(replayed[Len(replayed)].after + 1, Len(stream))

C32_Witness ==
    /\ Len(replayed) = 2
    /\ replayed[1].after = 2
    /\ stream[1].upto = 1
    /\ stream[2].upto = 2
    /\ ~stream[2].more_body
    /\ replayed[1].message.body = <<1, 2>>
    /\ replayed[2].after = 2
    /\ replayed[2].message.body = << >>

(***************************************************************************)
(* The informational headers of the body-limit guard, checked under        *)
(* SpecBody                                                                *)
(***************************************************************************)
\* the limit the specification selects for a path: the first route-prefix
\* override whose prefix starts the path, else the default
LimitForPath ==
    LET overrides == body_cfg.route_overrides
        hits == { i \in 1..Len(overrides) :
                    StartsWith(body_cfg.path, overrides[i].prefix) }
    IN  IF hits = {} THEN body_cfg.default_limit
        ELSE overrides[CHOOSE i \in hits : \A j \in hits : i <= j].max_body_bytes

\* the body bytes the transport has delivered in the first k messages
RECURSIVE BytesReceived(_)
BytesReceived(k) ==
    IF k = 0 THEN 0
    ELSE BytesReceived(k - 1)
         + (IF stream[k].type = "http.request" THEN Len(stream[k].chunk) ELSE 0)

\* the downstream starts its response on a request that has not passed the
\* limit
AcceptedResponseStart ==
    /\ sent = << >>
    /\ sent' # << >>
    /\ sent'[1].detail = "app"

\* C33: on an accepted request the response start that passes the guard
\* carries X-Body-Limit-Bytes = the limit selected for the path (first
\* matching route-prefix override, else the default) and
\* X-Body-Remaining-Bytes = that limit minus the body bytes received when
\* the response starts; the remaining value is never negative.
C33_LimitAndRemainingHeaders ==
    [][AcceptedResponseStart =>
          /\ Len(sent') = 1
          /\ sent'[1].annotated
          /\ sent'[1].limit = LimitForPath
          /\ sent'[1].remaining = LimitForPath - BytesReceived(Len(stream))
          /\ sent'[1].remaining >= 0]_vars

C33_Witness ==
    /\ body_cfg.scope_type = "http"
    /\ body_cfg.path = <<"/", "u">>
    /\ body_cfg.route_overrides # << >>
    /\ body_cfg.default_limit = 3
    /\ Len(sent) = 1
    /\ sent[1].detail = "app"
    /\ sent[1].annotated
    /\ sent[1].limit = 2
    /\ sent[1].remaining = 1
    /\ Len(stream) = 1
    /\ Len(stream[1].chunk) = 1

Refused(hs) ==
    \E i \in 1..Len(hs) :
        \/ Lower(hs[i].name) \in BLOCKLIST
        \/ \E j \in 1..Len(hs) :
              j # i /\ Lower(hs[j].name) = Lower(hs[i].name)
        \/ ~ValidName(Lower(hs[i].name))
        \/ HasControlChar(hs[i].value)

OnAllowList(h) == Lower(h.name) \in ALLOWLIST

\* C35: the sanitization guard rejects (400) and does not forward a request
\* with a header whose lower-cased name is blocklisted, occurs more than
\* once or fails ^[A-Za-z0-9-]+$, or whose value contains CR or LF, and
\* leaves the header list of a rejected request unmodified; every other
\* request is forwarded with exactly the original entries whose lower-cased
\* name is on the allow-list, in their original order.
C35_SanitizeOrForward ==
    (san_cfg.scope_type = "http" /\ san_pc # "new") =>
        IF Refused(san_cfg.headers)
        THEN /\ san_pc = "rejected"
             /\ Len(san_sent) = 1
             /\ san_sent[1].status = 400
             /\ san_app = << >>
             /\ san_scope = san_cfg.headers
        ELSE /\ san_pc = "forwarded"
             /\ san_sent = << >>
             /\ Len(san_app) = 1
             /\ san_app[1].headers = SelectSeq(san_cfg.headers, OnAllowList)

(***************************************************************************)
(* The garbage collection inside allow, checked under SpecRate             *)
(***************************************************************************)
\* the bucket `state` after one admission
Decremented(state) ==
    [state EXCEPT !.burst_tokens = @ - 1,
                  !.sustained_tokens = @ - Tok(1)]

\* C38: the GC pass inside allow(k) never removes k's own bucket: when
\* allow(k) returns, k is a key of the client map and the bucket stored under
\* k is the one this call inspected and, if it admitted, decremented; GC
\* removes only buckets with now - last_seen > 2 x sustained_period and
\* leaves every other bucket's fields unchanged.
C38_GcKeepsCallersBucket ==
    [][LET k == call'.ip
       IN  /\ k \in DOMAIN clients'
           /\ clients'[k] = IF call'.allowed
                            THEN Decremented(call'.decided)
                            ELSE call'.decided
           /\ \A c \in DOMAIN clients \ {k} :
                 IF c \in DOMAIN clients'
                 THEN clients'[c] = clients[c]
                 ELSE /\ call'.t_gc - clients[c].last_seen
                            > 2 * cfg.sustained_period
                      /\ call'.t_gc - last_gc >= cfg.gc_interval]_vars

\* a call by a client idle for longer than the cutoff, whose pass removed
\* the other client's bucket and kept its own
C38_Witness ==
    /\ Called
    /\ ~call.fresh
    /\ call.t_gc - call.before.last_seen > 2 * cfg.sustained_period
    /\ last_gc = call.t_gc
    /\ evicted # {}
    /\ DOMAIN clients = {call.ip}
    /\ call.allowed
    /\ clients[call.ip].burst_tokens = call.decided.burst_tokens - 1

(***************************************************************************)
(* The admissions of one client over time, checked under SpecAdmit         *)
(***************************************************************************)
\* the calls of client c admitted at the times from..to
RECURSIVE AdmittedIn(_, _, _)
AdmittedIn(c, from, to) ==
    IF from > to \/ from > MaxTime THEN 0
    ELSE admissions[c][from] + AdmittedIn(c, from + 1, to)

\* C36: when burst_window <= 2 x sustained_period, at most 2 x max_burst
\* requests of one client are admitted in any half-open interval of length
\* burst_window, whatever this and the other clients call and also when the
\* client's bucket is garbage-collected and created again.
C36_BurstBound ==
    cfg.burst_window <= 2 * cfg.sustained_period =>
        \A c \in Clients :
            \A t \in 0..MaxTime :
                AdmittedIn(c, t, t + cfg.burst_window - 1) <= 2 * cfg.max_burst

\* the bound is met by a bucket created again after its collection: the
\* client was admitted at 0, not seen until another client's pass removed it,
\* then admitted at 4 on the bucket created at 3 and at 5 after the reset
C36_Witness ==
    /\ cfg.max_burst = 1
    /\ cfg.burst_window = 2
    /\ \E c \in Clients :
          /\ admissions[c][0] = 1
          /\ AdmittedIn(c, 1, 3) = 0
          /\ admissions[c][4] = 1
          /\ admissions[c][5] = 1
          /\ AdmittedIn(c, 4, 4 + cfg.burst_window - 1) = 2 * cfg.max_burst

\* C37: in every time interval of length T at most
\* max_sustained + T x max_sustained / sustained_period requests of one
\* client are admitted, also across the collection and re-creation of the
\* client's bucket (both sides multiplied by sustained_period).
C37_SustainedBound ==
    \A c \in Clients :
        \A a \in 0..MaxTime :
            \A b \in a..MaxTime :
                AdmittedIn(c, a, b) * cfg.sustained_period
                    <= cfg.max_sustained * cfg.sustained_period
                       + (b - a) * cfg.max_sustained

\* a client admitted before its bucket was collected and again on the bucket
\* created for it afterwards, and somewhere a client that met the bound over
\* an interval of positive length
C37_Witness ==
    /\ call.ip \in Clients
    /\ call.was_evicted
    /\ call.fresh
    /\ call.allowed
    /\ AdmittedIn(call.ip, 0, call.now - 1) >= 1
    /\ \E c \in Clients :
          \E a \in 0..MaxTime :
              \E b \in (a + 1)..MaxTime :
                  AdmittedIn(c, a, b) * cfg.sustained_period
                      = cfg.max_sustained * cfg.sustained_period
                        + (b - a) * cfg.max_sustained

(***************************************************************************)
(* Startup and shutdown of the services, checked under SpecReady           *)
(***************************************************************************)
IsStart(c) == c.op = "start"
IsStop(c) == c.op = "stop"

StartCalls == SelectSeq(lc_calls, IsStart)
StopCalls == SelectSeq(lc_calls, IsStop)

\* what holds of the calls made so far
CallsInOrder ==
    /\ \A j \in 1..Len(StopCalls) :
          StopCalls[j].svc = Len(_services) + 1 - j
    /\ lc_stopping = Len(_services) + 1 => Len(StopCalls) = Len(_services)
    /\ \A j \in 1..Len(StartCalls) : StartCalls[j].svc = j
    /\ _startup_completed =>
          /\ Len(StartCalls) = Len(_services)
          /\ \A j \in 1..Len(StartCalls) : ~StartCalls[j].raised
    /\ _shutdown_started => ~IsReady /\ ~IsAlive

\* C40: shutdown() calls stop() exactly once on every registered service,
\* in reverse registration order, and goes on with the remaining services
\* when a stop() raises; startup() calls start() in registration order and
\* marks startup completed only after every start() returned; a repeated
\* startup() or shutdown() changes nothing; once shutdown has started
\* is_ready() and is_alive() are false forever.
C40_StartupAndShutdownOrder ==
    [][/\ CallsInOrder'
       /\ _shutdown_started => _shutdown_started'
       /\ lc_repeats' # lc_repeats =>
             UNCHANGED <<_services, _startup_started, _startup_completed,
                         _shutdown_started, lc_starting, lc_stopping,
                         lc_calls, probe>>]_vars

\* two services started in order, startup completed, then stopped last
\* first with the first stop() raising, and both calls repeated afterwards
C40_Witness ==
    /\ Len(_services) = 2
    /\ _startup_completed
    /\ _shutdown_started
    /\ lc_stopping = 3
    /\ lc_repeats = 2
    /\ lc_calls =
          << [op |-> "start", svc |-> 1, raised |-> FALSE],
             [op |-> "start", svc |-> 2, raised |-> FALSE],
             [op |-> "stop",  svc |-> 2, raised |-> TRUE],
             [op |-> "stop",  svc |-> 1, raised |-> FALSE] >>
    /\ ~IsReady
    /\ ~IsAlive

====
